---- MODULE Spec2Model ----
(***************************************************************************)
(* A model of the metainfo crate: the MetaInfo context tree (lib.rs), its  *)
(* typed stores (type_map.rs, faststr_map.rs), the segmented key/value     *)
(* Node (kv.rs) and the key prefix converters (convert.rs).                *)
(*                                                                         *)
(* Contexts live in an arena of slots 1..MaxCtx.  A slot is "unused", or   *)
(* holds a MetaInfo that is "owned" (a value the program can still call    *)
(* &mut self methods on), "arc" (held in an Arc the program passes to      *)
(* from, hence read-only), "promoted" (moved into an Arc by derive and     *)
(* reachable only through parent links) or "moved" (consumed by extend).   *)
(***************************************************************************)
EXTENDS Integers, Sequences, FiniteSets, TLC

\* ------------------------------------------------------------------ bounds

MaxCtx == 5
MaxOps == 3
\* Calls made in the specifications that draw keys from the wire.
MaxWireOps == 2
\* Longest key, in chars, handed to the converters on their own.
MaxKeyLen == 13

Ctx == 1..MaxCtx

\* ------------------------------------------------- Option<T> and HashMap<K,V>

None == [some |-> FALSE]
Some(v) == [some |-> TRUE, val |-> v]
is_none(o) == ~o.some
is_some(o) == o.some
unwrap(o) == o.val

\* HashMap::new / with_capacity: a map is a function on the set of its keys.
HashMap_new == [k \in {} |-> 0]
HashMap_contains_key(m, k) == k \in DOMAIN m
HashMap_get(m, k) == IF k \in DOMAIN m THEN Some(m[k]) ELSE None
HashMap_insert(m, k, v) == [x \in DOMAIN m \cup {k} |-> IF x = k THEN v ELSE m[x]]
HashMap_remove(m, k) == [x \in DOMAIN m \ {k} |-> m[x]]
HashMap_clear(m) == HashMap_new
HashMap_len(m) == Cardinality(DOMAIN m)
\* Extend<(K, V)>: every pair of o is inserted, replacing an equal key of m.
HashMap_extend(m, o) == [x \in DOMAIN m \cup DOMAIN o |-> IF x \in DOMAIN o THEN o[x] ELSE m[x]]

\* ------------------------------------------------------------ input domains

\* Type parameters T of insert::<T> / get::<T> / remove::<T> (TypeId keys).
Types == {"i8", "i16"}
\* Keys of insert_string.
StrKeys == {"sk"}
\* Newtype parameters T of insert_faststr::<T>.
FastTypes == {"F"}
\* Values stored in the typed, string and faststr stores.
Vals == {1, 2}

\* ----------------------------------------------------------------- strings

\* A &str is the sequence of its chars; an ASCII char is a one-character string
\* and a char outside ASCII is named by its code point.
UpperChars == <<"A","B","C","D","E","F","G","H","I","J","K","L","M",
                "N","O","P","Q","R","S","T","U","V","W","X","Y","Z">>
LowerChars == <<"a","b","c","d","e","f","g","h","i","j","k","l","m",
                "n","o","p","q","r","s","t","u","v","w","x","y","z">>
\* Chars outside ASCII that the model draws keys from, with their UTF-8 length.
WideChars == {"U+00E9", "U+4E2D"}

IsUpper(ch) == \E i \in DOMAIN UpperChars : UpperChars[i] = ch
IsLower(ch) == \E i \in DOMAIN LowerChars : LowerChars[i] = ch
to_ascii_lowercase(ch) ==
    IF IsUpper(ch) THEN LowerChars[CHOOSE i \in DOMAIN UpperChars : UpperChars[i] = ch] ELSE ch
to_ascii_uppercase(ch) ==
    IF IsLower(ch) THEN UpperChars[CHOOSE i \in DOMAIN LowerChars : LowerChars[i] = ch] ELSE ch
len_utf8(ch) == IF ch = "U+00E9" THEN 2 ELSE IF ch = "U+4E2D" THEN 3 ELSE 1

RECURSIVE str_len(_)
\* str::len: the length in bytes.
str_len(s) == IF s = <<>> THEN 0 ELSE len_utf8(Head(s)) + str_len(Tail(s))

starts_with(s, prefix) ==
    /\ Len(prefix) <= Len(s)
    /\ SubSeq(s, 1, Len(prefix)) = prefix
\* A strip that takes either separator for a separator of the prefix.
strip_prefix_any_separator(s, prefix) ==
    IF /\ Len(prefix) <= Len(s)
       /\ \A i \in 1..Len(prefix) :
            s[i] = prefix[i] \/ (prefix[i] \in {"_", "-"} /\ s[i] \in {"_", "-"})
    THEN Some(SubSeq(s, Len(prefix) + 1, Len(s))) ELSE None

\* str::strip_prefix
strip_prefix(s, prefix) ==
    IF starts_with(s, prefix) THEN Some(SubSeq(s, Len(prefix) + 1, Len(s))) ELSE None

\* A prefix that every RPC-style prefix begins with.
RPC_PREFIX_COMMON == <<"R","P","C","_">>

RPC_PREFIX_PERSISTENT == <<"R","P","C","_","P","E","R","S","I","S","T","_">>
RPC_PREFIX_TRANSIENT == <<"R","P","C","_","T","R","A","N","S","I","T","_">>
RPC_PREFIX_BACKWARD == <<"R","P","C","_","B","A","C","K","W","A","R","D","_">>
HTTP_PREFIX_PERSISTENT == <<"r","p","c","-","p","e","r","s","i","s","t","-">>
HTTP_PREFIX_TRANSIENT == <<"r","p","c","-","t","r","a","n","s","i","t","-">>
HTTP_PREFIX_BACKWARD == <<"r","p","c","-","b","a","c","k","w","a","r","d","-">>

\* ------------------------------------------------------------- convert.rs

FASTSTR_INLINE_SIZE == 24

\* The byte a heap buffer holds where the code made it part of the buffer with
\* Vec::set_len and never wrote it: any value, the same for one behaviour.
VARIABLE uninit
\* NUL for memory fresh from the system, a letter for memory used before.
UninitBytes == {"NUL", "z"}

\* Translations of the letters only, the separators left as they are.
http_char_letters_only(ch) == IF IsUpper(ch) THEN to_ascii_lowercase(ch) ELSE ch
rpc_char_letters_only(ch) == IF IsLower(ch) THEN to_ascii_uppercase(ch) ELSE ch

\* The char each loop iteration of to_http_format / to_rpc_format writes.
http_char(ch) == IF IsUpper(ch) THEN to_ascii_lowercase(ch) ELSE IF ch = "_" THEN "-" ELSE ch
rpc_char(ch) == IF IsLower(ch) THEN to_ascii_uppercase(ch) ELSE IF ch = "-" THEN "_" ELSE ch

\* to_http_format(key, buf): the chars written to buf, in order, from offset 0.
to_http_format(key) == [i \in 1..Len(key) |-> http_char(key[i])]
to_rpc_format(key) == [i \in 1..Len(key) |-> rpc_char(key[i])]

\* RpcConverter::add_prefix: inline buffer when it fits, a String otherwise.
RpcConverter_add_prefix(prefix, key) ==
    IF str_len(prefix) + str_len(key) <= FASTSTR_INLINE_SIZE
    THEN SubSeq(prefix \o key, 1, Len(prefix) + Len(key))
    ELSE prefix \o key
RpcConverter_remove_prefix(prefix, key) == strip_prefix(key, prefix)

\* add_prefix_and_to_http_format.  Inline path: the prefix, then the key translated
\* into inline_buf[prefix.len()..].  Heap path: the prefix is copied into buf, buf is
\* set to its full length, and to_http_format(key, &mut buf) writes the translated
\* key from offset 0, over the prefix; the bytes after the key are what is left of
\* the prefix, then bytes that were never written.
HttpConverter_add_prefix_and_to_http_format(prefix, key) ==
    IF str_len(prefix) + str_len(key) <= FASTSTR_INLINE_SIZE
    THEN SubSeq(prefix \o to_http_format(key), 1, Len(prefix) + Len(key))
    ELSE LET kept == SubSeq(prefix, str_len(key) + 1, Len(prefix))
             rest == str_len(prefix) - Len(kept)
         IN  to_http_format(key) \o kept \o [i \in 1..rest |-> uninit]
HttpConverter_remove_prefix_and_to_rpc_format(prefix, key) ==
    LET stripped == strip_prefix(key, prefix)
    IN  IF is_none(stripped) THEN None ELSE Some(to_rpc_format(unwrap(stripped)))

\* The offsets of buf that the loop of to_http_format / to_rpc_format writes, l being
\* the offset it has reached: a char of len bytes is written at l .. l + len - 1.
RECURSIVE to_http_format_writes(_, _)
to_http_format_writes(key, l) ==
    IF key = <<>> THEN {}
    ELSE LET len == len_utf8(http_char(Head(key)))
         IN  (l..(l + len - 1)) \cup to_http_format_writes(Tail(key), l + len)
RECURSIVE to_rpc_format_writes(_, _)
to_rpc_format_writes(key, l) ==
    IF key = <<>> THEN {}
    ELSE LET len == len_utf8(rpc_char(Head(key)))
         IN  (l..(l + len - 1)) \cup to_rpc_format_writes(Tail(key), l + len)

\* An add_prefix_and_to_http_format that takes the inline buffer whenever the key
\* alone fits it.
HttpConverter_add_prefix_and_to_http_format_key_fits(prefix, key) ==
    [inline |-> str_len(key) <= FASTSTR_INLINE_SIZE,
     len |-> IF str_len(key) <= FASTSTR_INLINE_SIZE THEN FASTSTR_INLINE_SIZE
             ELSE str_len(prefix) + str_len(key),
     writes |-> (0..(str_len(prefix) - 1))
                \cup {str_len(prefix) + o : o \in to_http_format_writes(key, 0)}]

\* The buffer each function fills: whether it is inline_buf, its length in bytes, and
\* the offsets of it that are written, by the copies and by the loop on the slice it
\* is handed (inline_buf[prefix.len()..] in the inline path of add, the whole buffer
\* elsewhere).
RpcConverter_add_prefix_buf(prefix, key) ==
    IF str_len(prefix) + str_len(key) <= FASTSTR_INLINE_SIZE
    THEN [inline |-> TRUE, len |-> FASTSTR_INLINE_SIZE,
          writes |-> (0..(str_len(prefix) - 1))
                     \cup (str_len(prefix)..(str_len(prefix) + str_len(key) - 1))]
    ELSE [inline |-> FALSE, len |-> str_len(prefix) + str_len(key),
          writes |-> (0..(str_len(prefix) - 1))
                     \cup (str_len(prefix)..(str_len(prefix) + str_len(key) - 1))]
HttpConverter_add_prefix_and_to_http_format_buf(prefix, key) ==
    IF str_len(prefix) + str_len(key) <= FASTSTR_INLINE_SIZE
    THEN [inline |-> TRUE, len |-> FASTSTR_INLINE_SIZE,
          writes |-> (0..(str_len(prefix) - 1))
                     \cup {str_len(prefix) + o : o \in to_http_format_writes(key, 0)}]
    ELSE [inline |-> FALSE, len |-> str_len(prefix) + str_len(key),
          writes |-> (0..(str_len(prefix) - 1)) \cup to_http_format_writes(key, 0)]
HttpConverter_remove_prefix_and_to_rpc_format_buf(prefix, key) ==
    LET stripped == strip_prefix(key, prefix)
    IN  IF is_none(stripped) THEN None
        ELSE IF str_len(unwrap(stripped)) <= FASTSTR_INLINE_SIZE
        THEN Some([inline |-> TRUE, len |-> FASTSTR_INLINE_SIZE,
                   writes |-> to_rpc_format_writes(unwrap(stripped), 0)])
        ELSE Some([inline |-> FALSE, len |-> str_len(unwrap(stripped)),
                   writes |-> to_rpc_format_writes(unwrap(stripped), 0)])

\* impl Converter for RpcConverter / HttpConverter, selected by the converter value.
Converters == {"RpcConverter", "HttpConverter"}
add_persistent_prefix(converter, key) ==
    IF converter = "RpcConverter" THEN RpcConverter_add_prefix(RPC_PREFIX_PERSISTENT, key)
    ELSE HttpConverter_add_prefix_and_to_http_format(HTTP_PREFIX_PERSISTENT, key)
add_transient_prefix(converter, key) ==
    IF converter = "RpcConverter" THEN RpcConverter_add_prefix(RPC_PREFIX_TRANSIENT, key)
    ELSE HttpConverter_add_prefix_and_to_http_format(HTTP_PREFIX_TRANSIENT, key)
add_backward_prefix(converter, key) ==
    IF converter = "RpcConverter" THEN RpcConverter_add_prefix(RPC_PREFIX_BACKWARD, key)
    ELSE HttpConverter_add_prefix_and_to_http_format(HTTP_PREFIX_BACKWARD, key)
remove_persistent_prefix(converter, key) ==
    IF converter = "RpcConverter" THEN RpcConverter_remove_prefix(RPC_PREFIX_PERSISTENT, key)
    ELSE HttpConverter_remove_prefix_and_to_rpc_format(HTTP_PREFIX_PERSISTENT, key)
remove_transient_prefix(converter, key) ==
    IF converter = "RpcConverter" THEN RpcConverter_remove_prefix(RPC_PREFIX_TRANSIENT, key)
    ELSE HttpConverter_remove_prefix_and_to_rpc_format(HTTP_PREFIX_TRANSIENT, key)
remove_backward_prefix(converter, key) ==
    IF converter = "RpcConverter" THEN RpcConverter_remove_prefix(RPC_PREFIX_BACKWARD, key)
    ELSE HttpConverter_remove_prefix_and_to_rpc_format(HTTP_PREFIX_BACKWARD, key)

\* ------------------------------------------------- type_map.rs, faststr_map.rs

\* An insert that keeps the value already stored for T.
TypeMap_insert_if_absent(inner, T, t) ==
    IF T \in DOMAIN inner THEN inner ELSE HashMap_insert(inner, T, t)

\* A remove that leaves the map as it is.
TypeMap_remove_nothing(inner, T) == inner

TypeMap_with_capacity == HashMap_new
TypeMap_insert(inner, T, t) == HashMap_insert(inner, T, t)
TypeMap_get(inner, T) == HashMap_get(inner, T)
TypeMap_contains(inner, T) == HashMap_contains_key(inner, T)
TypeMap_remove(inner, T) == HashMap_remove(inner, T)
TypeMap_clear(inner) == HashMap_clear(inner)
TypeMap_extend(inner, other) == HashMap_extend(inner, other)

\* TypeMap::entry::<T>(): the slot of T in the map, occupied or vacant.
TypeMap_entry(inner, T) == [inner |-> inner, key |-> T]
Entry_occupied(entry) == HashMap_contains_key(entry.inner, entry.key)

\* A closure FnOnce() -> V is a function on the empty argument list, a closure
\* FnOnce(&K) -> V a function on the keys, a closure FnOnce(&mut V) the function from
\* the value it finds to the value it leaves.
NoArgs == <<>>

\* An or_insert_with that stores the default whether or not T is present.
Entry_insert_with(entry, default) ==
    [inner |-> HashMap_insert(entry.inner, entry.key, default[NoArgs]),
     ret |-> default[NoArgs]]

\* Entry::or_insert_with, or_insert_with_key, or_insert, or_default: the map after
\* the call and the value the returned reference points to.
Entry_or_insert_with(entry, default) ==
    IF Entry_occupied(entry)
    THEN [inner |-> entry.inner, ret |-> entry.inner[entry.key]]
    ELSE [inner |-> HashMap_insert(entry.inner, entry.key, default[NoArgs]),
          ret |-> default[NoArgs]]
Entry_or_insert_with_key(entry, default) ==
    IF Entry_occupied(entry)
    THEN [inner |-> entry.inner, ret |-> entry.inner[entry.key]]
    ELSE [inner |-> HashMap_insert(entry.inner, entry.key, default[entry.key]),
          ret |-> default[entry.key]]
Entry_or_insert(entry, default) ==
    Entry_or_insert_with(entry, [args \in {NoArgs} |-> default])
\* V::default() of the integer types.
V_default == [args \in {NoArgs} |-> 0]
Entry_or_default(entry) == Entry_or_insert_with(entry, V_default)
\* Entry::and_modify: the entry it returns.
Entry_and_modify(entry, f) ==
    [inner |-> IF Entry_occupied(entry)
               THEN [entry.inner EXCEPT ![entry.key] = f[@]]
               ELSE entry.inner,
     key |-> entry.key]

FastStrMap_with_capacity == HashMap_new
FastStrMap_insert(inner, T, t) == HashMap_insert(inner, T, t)
FastStrMap_get(inner, T) == HashMap_get(inner, T)
FastStrMap_contains(inner, T) == HashMap_contains_key(inner, T)
FastStrMap_remove(inner, T) == HashMap_remove(inner, T)
FastStrMap_clear(inner) == HashMap_clear(inner)
FastStrMap_extend(inner, other) == HashMap_extend(inner, other)

\* -------------------------------------------------------------------- kv.rs

Segments == {"persistent", "transient", "stale"}

\* Node::default(): no segment allocated.
Node_default == [persistent |-> None, transient |-> None, stale |-> None]

\* A set that also writes the entry into the stale segment.
Node_set_also_stale(node, name, key, value) ==
    LET seg == IF is_none(node[name]) THEN HashMap_new ELSE unwrap(node[name])
        stale == IF is_none(node.stale) THEN HashMap_new ELSE unwrap(node.stale)
    IN  [[node EXCEPT !.stale = Some(HashMap_insert(stale, key, value))]
            EXCEPT ![name] = Some(HashMap_insert(seg, key, value))]

\* set_impl!: allocate the segment on first use, then insert.
Node_set(node, name, key, value) ==
    LET seg == IF is_none(node[name]) THEN HashMap_new ELSE unwrap(node[name])
    IN  [node EXCEPT ![name] = Some(HashMap_insert(seg, key, value))]

\* A del that frees the segment when it removes its last entry.
Node_del_frees_empty(node, name, key) ==
    IF is_some(node[name])
    THEN IF DOMAIN unwrap(node[name]) \subseteq {key} THEN [node EXCEPT ![name] = None]
         ELSE [node EXCEPT ![name] = Some(HashMap_remove(unwrap(node[name]), key))]
    ELSE node

\* A del that leaves the entry in the segment.
Node_del_keeps_entry(node, name, key) == node

\* del_impl!: remove from an allocated segment, nothing otherwise.
Node_del(node, name, key) ==
    IF is_some(node[name])
    THEN [node EXCEPT ![name] = Some(HashMap_remove(unwrap(node[name]), key))]
    ELSE node

\* get_impl!
Node_get(node, name, key) ==
    IF is_some(node[name]) THEN HashMap_get(unwrap(node[name]), key) ELSE None

\* get_all_impl!
Node_get_all(node, name) == node[name]

\* A segment merge that adopts other's map even when self has one.
Node_extend_segment_adopts(mine, theirs) == IF is_some(theirs) THEN theirs ELSE mine

\* One segment of Node::extend: adopt other's map when self has none, merge otherwise.
Node_extend_segment(mine, theirs) ==
    IF is_some(theirs)
    THEN IF is_none(mine) THEN Some(unwrap(theirs))
         ELSE Some(HashMap_extend(unwrap(mine), unwrap(theirs)))
    ELSE mine

Node_extend(node, other) ==
    [persistent |-> Node_extend_segment(node.persistent, other.persistent),
     transient |-> Node_extend_segment(node.transient, other.transient),
     stale |-> Node_extend_segment(node.stale, other.stale)]

\* Node::clear, called by MetaInfo::clear: every allocated segment is emptied.
Node_clear(node) ==
    [name \in Segments |->
        IF is_some(node[name]) THEN Some(HashMap_clear(unwrap(node[name]))) ELSE None]

\* No converter call made on its own.
NoCodec == [pc |-> "idle"]

\* ------------------------------------------------------- lib.rs: the state

VARIABLES
    status,         \* slot -> "unused" | "owned" | "arc" | "promoted" | "moved"
    parent,         \* MetaInfo.parent: Option<Arc<MetaInfo>>, the parent's slot
    tmap,           \* MetaInfo.tmap: Option<TypeMap>
    smap,           \* MetaInfo.smap: Option<AHashMap<FastStr, FastStr>>
    faststr_tmap,   \* MetaInfo.faststr_tmap: Option<FastStrMap>
    forward_node,   \* MetaInfo.forward_node: Option<kv::Node>
    backward_node,  \* MetaInfo.backward_node: Option<kv::Node>
    last,           \* the call that produced this state, with its arguments and result
    ops,            \* number of calls made so far
    sib,            \* history: pairs {a, b} returned by one derive or built from one parent
    anchor,         \* history: depth of a context's lineage after its last call other
                    \* than derive and the forward/backward set/del calls
    written,        \* history: an insert, insert_string or insert_faststr was made on the
                    \* instance, or on one it absorbed through extend
    chain,          \* history: the contexts of a call chain, hop 0 first
    codec           \* a converter applied on its own: its input and its results so far

fields == <<parent, tmap, smap, faststr_tmap, forward_node, backward_node>>
vars == <<status, parent, tmap, smap, faststr_tmap, forward_node, backward_node,
          last, ops, sib, anchor, written, uninit, chain, codec>>

\* Contexts that take &mut self calls although an Arc holds them.
OwnedOrArc == {c \in Ctx : status[c] \in {"owned", "arc"}}

Owned == {c \in Ctx : status[c] = "owned"}
Shared == {c \in Ctx : status[c] \in {"arc", "promoted"}}
Unused == {c \in Ctx : status[c] = "unused"}
\* The contexts that exist: owned by the program or kept alive by a child.
Alive == Owned \cup Shared

\* The next free slots of the arena.
Fresh1 == CHOOSE n \in Unused : \A m \in Unused : n <= m
Fresh2 == CHOOSE n \in Unused \ {Fresh1} : \A m \in Unused \ {Fresh1} : n <= m

NoCall == [op |-> "new", c |-> 1, k |-> "", v |-> 0, ret |-> None, a |-> 0, b |-> 0]
Call(op, c, k, v, ret, a, b) ==
    [op |-> op, c |-> c, k |-> k, v |-> v, ret |-> ret, a |-> a, b |-> b]

\* ------------------------------------------------ lib.rs: read-only methods

\* A lookup that stops at the local store.
get_ignores_parent(c, T) ==
    IF is_some(tmap[c]) THEN TypeMap_get(unwrap(tmap[c]), T) ELSE None

RECURSIVE get(_, _)
get(c, T) ==
    LET local == IF is_some(tmap[c]) THEN TypeMap_get(unwrap(tmap[c]), T) ELSE None
    IN  IF is_some(local) THEN local
        ELSE IF is_some(parent[c]) THEN get(unwrap(parent[c]), T) ELSE None

RECURSIVE get_faststr(_, _)
get_faststr(c, T) ==
    LET local == IF is_some(faststr_tmap[c])
                 THEN FastStrMap_get(unwrap(faststr_tmap[c]), T) ELSE None
    IN  IF is_some(local) THEN local
        ELSE IF is_some(parent[c]) THEN get_faststr(unwrap(parent[c]), T) ELSE None

RECURSIVE get_string(_, _)
get_string(c, key) ==
    LET local == IF is_some(smap[c]) THEN HashMap_get(unwrap(smap[c]), key) ELSE None
    IN  IF is_some(local) THEN local
        ELSE IF is_some(parent[c]) THEN get_string(unwrap(parent[c]), key) ELSE None

RECURSIVE contains(_, _)
contains(c, T) ==
    IF (IF is_some(tmap[c]) THEN TypeMap_contains(unwrap(tmap[c]), T) ELSE FALSE)
    THEN TRUE
    ELSE IF is_some(parent[c]) THEN contains(unwrap(parent[c]), T) ELSE FALSE

\* A test that stops at the local store.
contains_faststr_ignores_parent(c, T) ==
    IF is_some(faststr_tmap[c]) THEN FastStrMap_contains(unwrap(faststr_tmap[c]), T) ELSE FALSE

RECURSIVE contains_faststr(_, _)
contains_faststr(c, T) ==
    IF (IF is_some(faststr_tmap[c])
        THEN FastStrMap_contains(unwrap(faststr_tmap[c]), T) ELSE FALSE)
    THEN TRUE
    ELSE IF is_some(parent[c]) THEN contains_faststr(unwrap(parent[c]), T) ELSE FALSE

RECURSIVE contains_string(_, _)
contains_string(c, key) ==
    IF (IF is_some(smap[c]) THEN HashMap_contains_key(unwrap(smap[c]), key) ELSE FALSE)
    THEN TRUE
    ELSE IF is_some(parent[c]) THEN contains_string(unwrap(parent[c]), key) ELSE FALSE

\* get_impl!($name, $node, $func_name) on the Option<Node> field.
get_impl(node, func_name, key) ==
    IF is_some(node) THEN Node_get(unwrap(node), func_name, key) ELSE None

get_persistent(c, key) == get_impl(forward_node[c], "persistent", key)
get_transient(c, key) == get_impl(forward_node[c], "transient", key)
get_upstream(c, key) == get_impl(forward_node[c], "stale", key)
get_backward_transient(c, key) == get_impl(backward_node[c], "transient", key)
get_backward_downstream(c, key) == get_impl(backward_node[c], "stale", key)

get_all_impl(node, func_name) ==
    IF is_some(node) THEN Node_get_all(unwrap(node), func_name) ELSE None

get_all_persistents(c) == get_all_impl(forward_node[c], "persistent")
get_all_transients(c) == get_all_impl(forward_node[c], "transient")
get_all_upstreams(c) == get_all_impl(forward_node[c], "stale")
get_all_backward_transients(c) == get_all_impl(backward_node[c], "transient")
get_all_backward_downstreams(c) == get_all_impl(backward_node[c], "stale")

\* iter().map(|(k, v)| (add(k), v.clone())) collected by map.extend: the entries of m
\* under their prefixed keys.
with_prefix(m, add(_)) ==
    [w \in {add(k) : k \in DOMAIN m} |-> m[CHOOSE k \in DOMAIN m : add(k) = w]]

opt_len(o) == IF is_some(o) THEN HashMap_len(unwrap(o)) ELSE 0

get_all_persistents_and_transients(c, converter) ==
    IF is_some(forward_node[c])
    THEN LET node == unwrap(forward_node[c])
             persistents == Node_get_all(node, "persistent")
             transients == Node_get_all(node, "transient")
             new_cap == opt_len(persistents) + opt_len(transients)
             m0 == HashMap_new
             m1 == IF is_some(persistents)
                   THEN HashMap_extend(m0, with_prefix(unwrap(persistents),
                            LAMBDA k : add_persistent_prefix(converter, k)))
                   ELSE m0
             m2 == IF is_some(transients)
                   THEN HashMap_extend(m1, with_prefix(unwrap(transients),
                            LAMBDA k : add_transient_prefix(converter, k)))
                   ELSE m1
         IN  IF new_cap = 0 THEN None ELSE Some(m2)
    ELSE None

get_all_backword_transients_with_prefix(c, converter) ==
    IF is_some(backward_node[c])
    THEN LET t == Node_get_all(unwrap(backward_node[c]), "transient")
         IN  IF is_some(t)
             THEN IF HashMap_len(unwrap(t)) = 0 THEN None
                  ELSE Some(HashMap_extend(HashMap_new, with_prefix(unwrap(t),
                            LAMBDA k : add_transient_prefix(converter, k))))
             ELSE None
    ELSE None

get_all_persistents_and_transients_with_rpc_prefix(c) ==
    get_all_persistents_and_transients(c, "RpcConverter")
get_all_persistents_and_transients_with_http_prefix(c) ==
    get_all_persistents_and_transients(c, "HttpConverter")
get_all_backward_transients_with_rpc_prefix(c) ==
    get_all_backword_transients_with_prefix(c, "RpcConverter")
get_all_backward_transients_with_http_prefix(c) ==
    get_all_backword_transients_with_prefix(c, "HttpConverter")

\* Number of parent links from c to its root.
RECURSIVE depth(_)
depth(c) == IF is_some(parent[c]) THEN 1 + depth(unwrap(parent[c])) ELSE 0

\* --------------------------------------------------- lib.rs: the operations

\* Bookkeeping common to every call: one more call, and what it was.
Budget == ops < MaxOps
Step(call) ==
    /\ ops' = ops + 1
    /\ last' = call
    /\ UNCHANGED <<uninit, chain, codec>>

\* Option::get_or_insert_with
get_or_insert_with(o, default) == IF is_none(o) THEN default ELSE unwrap(o)

\* Default::default(): the struct MetaInfo::new() returns.
MetaInfo_default ==
    [parent |-> None, tmap |-> None, smap |-> None, faststr_tmap |-> None,
     forward_node |-> None, backward_node |-> None]

\* A child that starts with fresh nodes instead of the parent's.
from_struct_without_nodes(p) ==
    [parent |-> Some(p), tmap |-> None, smap |-> None, faststr_tmap |-> None,
     forward_node |-> None, backward_node |-> None]

\* The struct MetaInfo::from(parent) builds: the parent's nodes cloned, no local store.
from_struct(p) ==
    [parent |-> Some(p), tmap |-> None, smap |-> None, faststr_tmap |-> None,
     forward_node |-> forward_node[p], backward_node |-> backward_node[p]]

\* Children that get no node: the nodes taken out of self are dropped.
from_node_drops_nodes(p, fwd, bwd) ==
    [parent |-> Some(p), tmap |-> None, smap |-> None, faststr_tmap |-> None,
     forward_node |-> None, backward_node |-> None]

\* MetaInfo::from_node(parent, forward_node, backward_node)
from_node(p, fwd, bwd) ==
    [parent |-> Some(p), tmap |-> None, smap |-> None, faststr_tmap |-> None,
     forward_node |-> fwd, backward_node |-> bwd]

\* A `new` hung under self, which stays owned and mutable.
derive_new_under_self(c) ==
    [parent |-> Some(c), tmap |-> None, smap |-> None, faststr_tmap |-> None,
     forward_node |-> forward_node[c], backward_node |-> backward_node[c]]

\* The struct `new` of derive's first branch: self's parent and clones of self's nodes.
derive_new(c) ==
    [parent |-> parent[c], tmap |-> None, smap |-> None, faststr_tmap |-> None,
     forward_node |-> forward_node[c], backward_node |-> backward_node[c]]

\* A map that is absent or holds no entry.
no_entry(store) == is_none(store) \/ DOMAIN unwrap(store) = {}

\* A test on the entries: no local typed, string or faststr entry is held.
derive_shares_parent_if_empty(c) ==
    no_entry(tmap[c]) /\ no_entry(smap[c]) /\ no_entry(faststr_tmap[c])

\* A derive that always promotes self.
derive_never_shares_parent(c) == FALSE

\* The test of derive: no local typed, string or faststr store is allocated.
derive_shares_parent(c) ==
    is_none(tmap[c]) /\ is_none(smap[c]) /\ is_none(faststr_tmap[c])

\* The arena with struct m stored in slot n.
Store1(n, m) ==
    /\ parent' = [parent EXCEPT ![n] = m.parent]
    /\ tmap' = [tmap EXCEPT ![n] = m.tmap]
    /\ smap' = [smap EXCEPT ![n] = m.smap]
    /\ faststr_tmap' = [faststr_tmap EXCEPT ![n] = m.faststr_tmap]
    /\ forward_node' = [forward_node EXCEPT ![n] = m.forward_node]
    /\ backward_node' = [backward_node EXCEPT ![n] = m.backward_node]

\* MetaInfo::new() in a fresh slot.
MetaInfo_new ==
    /\ Budget
    /\ Unused # {}
    /\ LET n == Fresh1 IN
        /\ status' = [status EXCEPT ![n] = "owned"]
        /\ Store1(n, MetaInfo_default)
        /\ anchor' = [anchor EXCEPT ![n] = 0]
        /\ written' = [written EXCEPT ![n] = FALSE]
        /\ Step(Call("new", n, "", 0, None, n, 0))
    /\ UNCHANGED sib

\* MetaInfo::from(parent): parent is an Arc the caller holds, made from an owned
\* context by Arc::new or cloned from an Arc made earlier.
MetaInfo_from(p) ==
    /\ Budget
    /\ status[p] \in {"owned", "arc"}
    /\ Unused # {}
    /\ LET n == Fresh1 IN
        /\ status' = [status EXCEPT ![p] = "arc", ![n] = "owned"]
        /\ Store1(n, from_struct(p))
        /\ sib' = sib \cup {{n, x} : x \in {y \in Ctx : parent[y] = Some(p)}}
        /\ anchor' = [anchor EXCEPT ![n] = depth(p) + 1]
        /\ written' = [written EXCEPT ![n] = FALSE]
        /\ Step(Call("from", p, "", 0, None, n, 0))

\* MetaInfo::derive(self) -> (MetaInfo, MetaInfo)
derive(c) ==
    /\ Budget
    /\ c \in Owned
    /\ IF derive_shares_parent(c)
       THEN \* (self, new)
            /\ Unused # {}
            /\ LET new == Fresh1 IN
                /\ status' = [status EXCEPT ![new] = "owned"]
                /\ Store1(new, derive_new(c))
                /\ sib' = sib \cup {{c, new}}
                /\ anchor' = [anchor EXCEPT ![new] = anchor[c]]
                /\ written' = [written EXCEPT ![new] = FALSE]
                /\ Step(Call("derive", c, "", 0, None, c, new))
       ELSE \* self moves into an Arc, its nodes taken out for the two children
            /\ Cardinality(Unused) >= 2
            /\ LET a == Fresh1
                   b == Fresh2
                   fwd == forward_node[c]
                   bwd == backward_node[c]
                   ma == from_node(c, fwd, bwd)
                   mb == from_node(c, fwd, bwd)
               IN
                /\ status' = [status EXCEPT ![c] = "promoted", ![a] = "owned", ![b] = "owned"]
                /\ parent' = [parent EXCEPT ![a] = ma.parent, ![b] = mb.parent]
                /\ tmap' = [tmap EXCEPT ![a] = ma.tmap, ![b] = mb.tmap]
                /\ smap' = [smap EXCEPT ![a] = ma.smap, ![b] = mb.smap]
                /\ faststr_tmap' = [faststr_tmap EXCEPT ![a] = ma.faststr_tmap,
                                                        ![b] = mb.faststr_tmap]
                /\ forward_node' = [forward_node EXCEPT ![c] = None,
                                        ![a] = ma.forward_node, ![b] = mb.forward_node]
                /\ backward_node' = [backward_node EXCEPT ![c] = None,
                                        ![a] = ma.backward_node, ![b] = mb.backward_node]
                /\ sib' = sib \cup {{a, b}}
                /\ anchor' = [anchor EXCEPT ![a] = anchor[c], ![b] = anchor[c]]
                /\ written' = [written EXCEPT ![a] = FALSE, ![b] = FALSE]
                /\ Step(Call("derive", c, "", 0, None, a, b))

\* A call on c other than derive and the forward/backward set/del calls restarts
\* the lineage whose depth anchor records.
Reanchor(c, d) == anchor' = [anchor EXCEPT ![c] = d]

insert(c, T, val) ==
    /\ Budget
    /\ c \in Owned
    /\ tmap' = [tmap EXCEPT ![c] =
                    Some(TypeMap_insert(get_or_insert_with(@, TypeMap_with_capacity), T, val))]
    /\ Step(Call("insert", c, T, val, None, 0, 0))
    /\ Reanchor(c, depth(c))
    /\ written' = [written EXCEPT ![c] = TRUE]
    /\ UNCHANGED <<status, parent, smap, faststr_tmap, forward_node, backward_node, sib>>

insert_faststr(c, T, val) ==
    /\ Budget
    /\ c \in Owned
    /\ faststr_tmap' = [faststr_tmap EXCEPT ![c] =
                    Some(FastStrMap_insert(get_or_insert_with(@, FastStrMap_with_capacity), T, val))]
    /\ Step(Call("insert_faststr", c, T, val, None, 0, 0))
    /\ Reanchor(c, depth(c))
    /\ written' = [written EXCEPT ![c] = TRUE]
    /\ UNCHANGED <<status, parent, tmap, smap, forward_node, backward_node, sib>>

insert_string(c, key, val) ==
    /\ Budget
    /\ c \in Owned
    /\ smap' = [smap EXCEPT ![c] =
                    Some(HashMap_insert(get_or_insert_with(@, HashMap_new), key, val))]
    /\ Step(Call("insert_string", c, key, val, None, 0, 0))
    /\ Reanchor(c, depth(c))
    /\ written' = [written EXCEPT ![c] = TRUE]
    /\ UNCHANGED <<status, parent, tmap, faststr_tmap, forward_node, backward_node, sib>>

\* A remove that reads the value and leaves it in the store.
remove_store_keeps_entry(store, T) == store

\* self.tmap.as_mut().and_then(|tmap| tmap.remove::<T>()): the store after, and the result.
remove_store(store, T) ==
    IF is_some(store) THEN Some(TypeMap_remove(unwrap(store), T)) ELSE store
remove_result(store, T) ==
    IF is_some(store) THEN TypeMap_get(unwrap(store), T) ELSE None

remove(c, T) ==
    /\ Budget
    /\ c \in Owned
    /\ tmap' = [tmap EXCEPT ![c] = remove_store(@, T)]
    /\ Step(Call("remove", c, T, 0, remove_result(tmap[c], T), 0, 0))
    /\ Reanchor(c, depth(c))
    /\ UNCHANGED written
    /\ UNCHANGED <<status, parent, smap, faststr_tmap, forward_node, backward_node, sib>>

remove_faststr(c, T) ==
    /\ Budget
    /\ c \in Owned
    /\ faststr_tmap' = [faststr_tmap EXCEPT ![c] =
            IF is_some(@) THEN Some(FastStrMap_remove(unwrap(@), T)) ELSE @]
    /\ Step(Call("remove_faststr", c, T, 0,
                 IF is_some(faststr_tmap[c])
                 THEN FastStrMap_get(unwrap(faststr_tmap[c]), T) ELSE None, 0, 0))
    /\ Reanchor(c, depth(c))
    /\ UNCHANGED written
    /\ UNCHANGED <<status, parent, tmap, smap, forward_node, backward_node, sib>>

remove_string(c, key) ==
    /\ Budget
    /\ c \in Owned
    /\ smap' = [smap EXCEPT ![c] =
            IF is_some(@) THEN Some(HashMap_remove(unwrap(@), key)) ELSE @]
    /\ Step(Call("remove_string", c, key, 0,
                 IF is_some(smap[c]) THEN HashMap_get(unwrap(smap[c]), key) ELSE None, 0, 0))
    /\ Reanchor(c, depth(c))
    /\ UNCHANGED written
    /\ UNCHANGED <<status, parent, tmap, faststr_tmap, forward_node, backward_node, sib>>

\* A clear that keeps the parent link.
clear_parent_keeps_link(p) == p

\* self.parent = None, the first statement of clear.
clear_parent(p) == None

\* if let Some(m) = field.as_mut() { m.clear() }
clear_store(store) == IF is_some(store) THEN Some(HashMap_clear(unwrap(store))) ELSE store
clear_node(node) == IF is_some(node) THEN Some(Node_clear(unwrap(node))) ELSE node

clear(c) ==
    /\ Budget
    /\ c \in Owned
    /\ parent' = [parent EXCEPT ![c] = clear_parent(@)]
    /\ tmap' = [tmap EXCEPT ![c] = clear_store(@)]
    /\ smap' = [smap EXCEPT ![c] = clear_store(@)]
    /\ faststr_tmap' = [faststr_tmap EXCEPT ![c] = clear_store(@)]
    /\ forward_node' = [forward_node EXCEPT ![c] = clear_node(@)]
    /\ backward_node' = [backward_node EXCEPT ![c] = clear_node(@)]
    /\ Step(Call("clear", c, "", 0, None, 0, 0))
    /\ Reanchor(c, 0)
    /\ UNCHANGED written
    /\ UNCHANGED <<status, sib>>

\* A merge in which self's value wins on a common key.
extend_store_keeps_mine(mine, theirs) ==
    IF is_some(theirs)
    THEN Some(HashMap_extend(unwrap(theirs), get_or_insert_with(mine, HashMap_new)))
    ELSE mine

\* if let Some(m) = other.field { self.field.get_or_insert_with(..).extend(m) }
extend_store(mine, theirs) ==
    IF is_some(theirs)
    THEN Some(HashMap_extend(get_or_insert_with(mine, HashMap_new), unwrap(theirs)))
    ELSE mine

\* if let Some(node) = other.node { adopt it, or self.node.extend(node) }
extend_node(mine, theirs) ==
    IF is_some(theirs)
    THEN IF is_none(mine) THEN Some(unwrap(theirs))
         ELSE Some(Node_extend(unwrap(mine), unwrap(theirs)))
    ELSE mine

\* An extend that takes over other's parent link.
extend_parent_adopts(mine, theirs) == theirs

\* extend reads other.parent nowhere and assigns self.parent nowhere.
extend_parent(mine, theirs) == mine

\* MetaInfo::extend(&mut self, other: MetaInfo): other is consumed.
extend(c, other) ==
    /\ Budget
    /\ c \in Owned
    /\ other \in Owned \ {c}
    /\ status' = [status EXCEPT ![other] = "moved"]
    /\ parent' = [parent EXCEPT ![c] = extend_parent(@, parent[other]), ![other] = None]
    /\ tmap' = [tmap EXCEPT ![c] = extend_store(@, tmap[other]), ![other] = None]
    /\ smap' = [smap EXCEPT ![c] = extend_store(@, smap[other]), ![other] = None]
    /\ faststr_tmap' = [faststr_tmap EXCEPT ![c] = extend_store(@, faststr_tmap[other]),
                                            ![other] = None]
    /\ forward_node' = [forward_node EXCEPT ![c] = extend_node(@, forward_node[other]),
                                            ![other] = None]
    /\ backward_node' = [backward_node EXCEPT ![c] = extend_node(@, backward_node[other]),
                                              ![other] = None]
    /\ Step(Call("extend", c, "", 0, None, other, 0))
    /\ Reanchor(c, depth(c))
    /\ written' = [written EXCEPT ![c] = @ \/ written[other]]
    /\ UNCHANGED sib

\* ----------------------------------- lib.rs: impl Forward / Backward for MetaInfo

\* set_impl!: ensure_<node>_node(), then the node's set.
set_impl(node, func_name, key, value) ==
    Some(Node_set(get_or_insert_with(node, Node_default), func_name, key, value))

\* A del that allocates the node first, as set does.
del_impl_ensures_node(node, func_name, key) ==
    Some(Node_del(get_or_insert_with(node, Node_default), func_name, key))

\* del_impl!: the node's del when the node exists.
del_impl(node, func_name, key) ==
    IF is_some(node) THEN Some(Node_del(unwrap(node), func_name, key)) ELSE node

\* A call that leaves c's forward node as `node` and touches nothing else.
ForwardWrite(c, call, node) ==
    /\ Budget
    /\ c \in Owned
    /\ forward_node' = [forward_node EXCEPT ![c] = node]
    /\ Step(call)
    /\ UNCHANGED <<status, parent, tmap, smap, faststr_tmap, backward_node, sib, anchor, written>>

BackwardWrite(c, call, node) ==
    /\ Budget
    /\ c \in Owned
    /\ backward_node' = [backward_node EXCEPT ![c] = node]
    /\ Step(call)
    /\ UNCHANGED <<status, parent, tmap, smap, faststr_tmap, forward_node, sib, anchor, written>>

set_persistent(c, key, value) ==
    ForwardWrite(c, Call("set_persistent", c, key, value, None, 0, 0),
                 set_impl(forward_node[c], "persistent", key, value))
set_transient(c, key, value) ==
    ForwardWrite(c, Call("set_transient", c, key, value, None, 0, 0),
                 set_impl(forward_node[c], "transient", key, value))
set_upstream(c, key, value) ==
    ForwardWrite(c, Call("set_upstream", c, key, value, None, 0, 0),
                 set_impl(forward_node[c], "stale", key, value))

del_persistent(c, key) ==
    ForwardWrite(c, Call("del_persistent", c, key, "", None, 0, 0),
                 del_impl(forward_node[c], "persistent", key))
del_transient(c, key) ==
    ForwardWrite(c, Call("del_transient", c, key, "", None, 0, 0),
                 del_impl(forward_node[c], "transient", key))
del_upstream(c, key) ==
    ForwardWrite(c, Call("del_upstream", c, key, "", None, 0, 0),
                 del_impl(forward_node[c], "stale", key))

set_backward_transient(c, key, value) ==
    BackwardWrite(c, Call("set_backward_transient", c, key, value, None, 0, 0),
                  set_impl(backward_node[c], "transient", key, value))
set_backward_downstream(c, key, value) ==
    BackwardWrite(c, Call("set_backward_downstream", c, key, value, None, 0, 0),
                  set_impl(backward_node[c], "stale", key, value))

del_backward_transient(c, key) ==
    BackwardWrite(c, Call("del_backward_transient", c, key, "", None, 0, 0),
                  del_impl(backward_node[c], "transient", key))
del_backward_downstream(c, key) ==
    BackwardWrite(c, Call("del_backward_downstream", c, key, "", None, 0, 0),
                  del_impl(backward_node[c], "stale", key))

\* A strip-and-set that writes under the empty key when the prefix is missing.
strip_and_set_always(node, stripped, func_name, value) ==
    IF is_some(stripped) THEN set_impl(node, func_name, unwrap(stripped), value)
    ELSE set_impl(node, func_name, <<>>, value)

\* if let Some(key) = converter.remove_<kind>_prefix(key) { self.set_<segment>(key, value) }
strip_and_set(node, stripped, func_name, value) ==
    IF is_some(stripped) THEN set_impl(node, func_name, unwrap(stripped), value) ELSE node

strip_rpc_prefix_and_set_persistent(c, key, value) ==
    ForwardWrite(c, Call("strip_rpc_prefix_and_set_persistent", c, key, value, None, 0, 0),
                 strip_and_set(forward_node[c], remove_persistent_prefix("RpcConverter", key),
                               "persistent", value))
strip_rpc_prefix_and_set_upstream(c, key, value) ==
    ForwardWrite(c, Call("strip_rpc_prefix_and_set_upstream", c, key, value, None, 0, 0),
                 strip_and_set(forward_node[c], remove_transient_prefix("RpcConverter", key),
                               "stale", value))
strip_http_prefix_and_set_persistent(c, key, value) ==
    ForwardWrite(c, Call("strip_http_prefix_and_set_persistent", c, key, value, None, 0, 0),
                 strip_and_set(forward_node[c], remove_persistent_prefix("HttpConverter", key),
                               "persistent", value))
strip_http_prefix_and_set_upstream(c, key, value) ==
    ForwardWrite(c, Call("strip_http_prefix_and_set_upstream", c, key, value, None, 0, 0),
                 strip_and_set(forward_node[c], remove_transient_prefix("HttpConverter", key),
                               "stale", value))
strip_rpc_prefix_and_set_backward_downstream(c, key, value) ==
    BackwardWrite(c, Call("strip_rpc_prefix_and_set_backward_downstream", c, key, value,
                          None, 0, 0),
                  strip_and_set(backward_node[c], remove_backward_prefix("RpcConverter", key),
                                "stale", value))
strip_http_prefix_and_set_backward_downstream(c, key, value) ==
    BackwardWrite(c, Call("strip_http_prefix_and_set_backward_downstream", c, key, value,
                          None, 0, 0),
                  strip_and_set(backward_node[c], remove_backward_prefix("HttpConverter", key),
                                "stale", value))

\* The orders in which a HashMap's iterator can yield the keys of S.
Orders(S) ==
    {order \in [1..Cardinality(S) -> S] :
        \A i \in DOMAIN order, j \in DOMAIN order : order[i] = order[j] => i = j}

\* strip_<style>_prefix_and_set_backward_downstream called with every (key, value)
\* of the exported map m, in the given order.
RECURSIVE strip_each_backward(_, _, _, _)
strip_each_backward(node, m, order, converter) ==
    IF order = <<>> THEN node
    ELSE strip_each_backward(
            strip_and_set(node, remove_backward_prefix(converter, Head(order)),
                          "stale", m[Head(order)]),
            m, Tail(order), converter)

\* The return trip of one style: the callee's backward bulk export is put on the
\* wire and the caller feeds every pair of it to its strip-and-set call.
return_backward(caller, callee, converter) ==
    /\ callee \in Owned \ {caller}
    /\ LET out == get_all_backword_transients_with_prefix(callee, converter) IN
        /\ is_some(out)
        /\ \E order \in Orders(DOMAIN unwrap(out)) :
            BackwardWrite(caller,
                Call(IF converter = "RpcConverter" THEN "return_backward_rpc"
                     ELSE "return_backward_http", caller, "", 0, None, callee, 0),
                strip_each_backward(backward_node[caller], unwrap(out), order, converter))

\* ------------------------------------------------------- the specifications

\* Keys and values of the forward and backward segments.
KvKeys == {<<"K">>, <<"A", "_", "B">>}
KvVals == {"x", "y"}
\* The smaller domains used where the typed stores are explored in full.
TreeKvKeys == {<<"K">>}
TreeKvVals == {"x"}
\* Wire keys handed to the strip-and-set calls: the key K under the prefix each call
\* expects.
TreeWireKeys(converter, kind) ==
    IF converter = "RpcConverter"
    THEN CASE kind = "persistent" -> {RPC_PREFIX_PERSISTENT \o <<"K">>}
           [] kind = "transient" -> {RPC_PREFIX_TRANSIENT \o <<"K">>}
           [] kind = "backward" -> {RPC_PREFIX_BACKWARD \o <<"K">>}
    ELSE CASE kind = "persistent" -> {HTTP_PREFIX_PERSISTENT \o <<"k">>}
           [] kind = "transient" -> {HTTP_PREFIX_TRANSIENT \o <<"k">>}
           [] kind = "backward" -> {HTTP_PREFIX_BACKWARD \o <<"k">>}

\* After construction: one context made by MetaInfo::new(), as new() leaves it or
\* after a first insert::<i8>(1).
Init ==
    /\ status = [c \in Ctx |-> IF c = 1 THEN "owned" ELSE "unused"]
    /\ parent = [c \in Ctx |-> None]
    /\ \E first \in {None, Some(TypeMap_insert(TypeMap_with_capacity, "i8", 1))} :
            tmap = [c \in Ctx |-> IF c = 1 THEN first ELSE None]
    /\ smap = [c \in Ctx |-> None]
    /\ faststr_tmap = [c \in Ctx |-> None]
    /\ forward_node = [c \in Ctx |-> None]
    /\ backward_node = [c \in Ctx |-> None]
    /\ last = NoCall
    /\ ops = 0
    /\ sib = {}
    /\ anchor = [c \in Ctx |-> 0]
    /\ written = [c \in Ctx |-> c = 1 /\ is_some(tmap[1])]
    /\ uninit = "NUL"
    /\ chain = <<>>
    /\ codec = NoCodec

Construct ==
    \/ MetaInfo_new
    \/ \E p \in Ctx : MetaInfo_from(p)
    \/ \E c \in Ctx : derive(c)
    \/ \E c \in Ctx : clear(c)
    \/ \E c \in Ctx, other \in Ctx : extend(c, other)

TypedCalls(TT, SK, FT, VV) ==
    \/ \E c \in Ctx, T \in TT, val \in VV : insert(c, T, val)
    \/ \E c \in Ctx, T \in FT, val \in VV : insert_faststr(c, T, val)
    \/ \E c \in Ctx, key \in SK, val \in VV : insert_string(c, key, val)
    \/ \E c \in Ctx, T \in TT : remove(c, T)
    \/ \E c \in Ctx, T \in FT : remove_faststr(c, T)
    \/ \E c \in Ctx, key \in SK : remove_string(c, key)

KvCalls(KK, KV) ==
    \/ \E c \in Ctx, key \in KK, value \in KV : set_persistent(c, key, value)
    \/ \E c \in Ctx, key \in KK, value \in KV : set_transient(c, key, value)
    \/ \E c \in Ctx, key \in KK, value \in KV : set_upstream(c, key, value)
    \/ \E c \in Ctx, key \in KK : del_persistent(c, key)
    \/ \E c \in Ctx, key \in KK : del_transient(c, key)
    \/ \E c \in Ctx, key \in KK : del_upstream(c, key)
    \/ \E c \in Ctx, key \in KK, value \in KV : set_backward_transient(c, key, value)
    \/ \E c \in Ctx, key \in KK, value \in KV : set_backward_downstream(c, key, value)
    \/ \E c \in Ctx, key \in KK : del_backward_transient(c, key)
    \/ \E c \in Ctx, key \in KK : del_backward_downstream(c, key)

StripCalls(WK(_, _), KV) ==
    \/ \E c \in Ctx, key \in WK("RpcConverter", "persistent"), value \in KV :
            strip_rpc_prefix_and_set_persistent(c, key, value)
    \/ \E c \in Ctx, key \in WK("RpcConverter", "transient"), value \in KV :
            strip_rpc_prefix_and_set_upstream(c, key, value)
    \/ \E c \in Ctx, key \in WK("HttpConverter", "persistent"), value \in KV :
            strip_http_prefix_and_set_persistent(c, key, value)
    \/ \E c \in Ctx, key \in WK("HttpConverter", "transient"), value \in KV :
            strip_http_prefix_and_set_upstream(c, key, value)
    \/ \E c \in Ctx, key \in WK("RpcConverter", "backward"), value \in KV :
            strip_rpc_prefix_and_set_backward_downstream(c, key, value)
    \/ \E c \in Ctx, key \in WK("HttpConverter", "backward"), value \in KV :
            strip_http_prefix_and_set_backward_downstream(c, key, value)

\* Every operation, the typed stores over their whole domain.
Next ==
    \/ Construct
    \/ TypedCalls(Types, StrKeys, FastTypes, Vals)
    \/ KvCalls(TreeKvKeys, TreeKvVals)
    \/ StripCalls(TreeWireKeys, TreeKvVals)

Spec == Init /\ [][Next]_vars

\* The forward and backward nodes over their whole domain, from a context made by
\* MetaInfo::new(), as new() leaves it or after a first set_persistent("K", "x").
KvInit ==
    /\ status = [c \in Ctx |-> IF c = 1 THEN "owned" ELSE "unused"]
    /\ parent = [c \in Ctx |-> None]
    /\ tmap = [c \in Ctx |-> None]
    /\ smap = [c \in Ctx |-> None]
    /\ faststr_tmap = [c \in Ctx |-> None]
    /\ \E first \in {None, set_impl(None, "persistent", <<"K">>, "x")} :
            forward_node = [c \in Ctx |-> IF c = 1 THEN first ELSE None]
    /\ backward_node = [c \in Ctx |-> None]
    /\ last = NoCall
    /\ ops = 0
    /\ sib = {}
    /\ anchor = [c \in Ctx |-> 0]
    /\ written = [c \in Ctx |-> FALSE]
    /\ uninit = "NUL"
    /\ chain = <<>>
    /\ codec = NoCodec

KvNext ==
    \/ Construct
    \/ KvCalls(KvKeys, KvVals)

KvSpec == KvInit /\ [][KvNext]_vars

\* ---------------------------------------------- keys that come from the wire

\* An upper-snake key short enough for the inline buffer under every prefix, one
\* too long for it under every prefix (13 bytes: 12 + 13 > FASTSTR_INLINE_SIZE), and
\* their lower-kebab forms.
ShortKey == <<"A", "_", "B">>
LongKey == <<"L", "O", "N", "G", "_", "T", "E", "S", "T", "_", "K", "E", "Y">>
ShortKeyHttp == <<"a", "-", "b">>
LongKeyHttp == <<"l", "o", "n", "g", "-", "t", "e", "s", "t", "-", "k", "e", "y">>
WireKvKeys == {ShortKey, LongKey}
WireKvVals == {"x", "y"}
WireVals == {"w"}

\* Keys a transport hands to the strip-and-set calls: ShortKey under each of the six
\* prefixes in the prefix's style, and bare.
AllWireKeys ==
    {RPC_PREFIX_PERSISTENT \o ShortKey, RPC_PREFIX_TRANSIENT \o ShortKey,
     RPC_PREFIX_BACKWARD \o ShortKey, HTTP_PREFIX_PERSISTENT \o ShortKeyHttp,
     HTTP_PREFIX_TRANSIENT \o ShortKeyHttp, HTTP_PREFIX_BACKWARD \o ShortKeyHttp,
     ShortKey}
WireKeys(converter, kind) == AllWireKeys

\* Two contexts made by MetaInfo::new(): a callee and its caller.
WireInit ==
    /\ status = [c \in Ctx |-> IF c \in {1, 2} THEN "owned" ELSE "unused"]
    /\ parent = [c \in Ctx |-> None]
    /\ tmap = [c \in Ctx |-> None]
    /\ smap = [c \in Ctx |-> None]
    /\ faststr_tmap = [c \in Ctx |-> None]
    /\ forward_node = [c \in Ctx |-> None]
    /\ backward_node = [c \in Ctx |-> None]
    /\ last = NoCall
    /\ ops = 0
    /\ sib = {}
    /\ anchor = [c \in Ctx |-> 0]
    /\ written = [c \in Ctx |-> FALSE]
    /\ uninit \in UninitBytes
    /\ chain = <<>>
    /\ codec = NoCodec

WireSets(KK, KV) ==
    \/ \E c \in Ctx, key \in KK, value \in KV : set_persistent(c, key, value)
    \/ \E c \in Ctx, key \in KK, value \in KV : set_transient(c, key, value)
    \/ \E c \in Ctx, key \in KK, value \in KV : set_upstream(c, key, value)
    \/ \E c \in Ctx, key \in KK, value \in KV : set_backward_transient(c, key, value)
    \/ \E c \in Ctx, key \in KK, value \in KV : set_backward_downstream(c, key, value)

WireNext ==
    /\ ops < MaxWireOps
    /\ \/ WireSets(WireKvKeys, WireKvVals)
       \/ StripCalls(WireKeys, WireVals)
       \/ \E caller \in Ctx, callee \in Ctx, converter \in Converters :
            return_backward(caller, callee, converter)

WireSpec == WireInit /\ [][WireNext]_vars

\* ------------------------------------------------- keys ingested from the wire

\* The wire form of each key of WireKvKeys for a strip-and-set call: the key in the
\* call's style under the prefix the call expects.
IngestKeys(converter, kind) ==
    {(CASE kind = "persistent" -> IF converter = "RpcConverter" THEN RPC_PREFIX_PERSISTENT
                                  ELSE HTTP_PREFIX_PERSISTENT
        [] kind = "transient" -> IF converter = "RpcConverter" THEN RPC_PREFIX_TRANSIENT
                                 ELSE HTTP_PREFIX_TRANSIENT
        [] kind = "backward" -> IF converter = "RpcConverter" THEN RPC_PREFIX_BACKWARD
                                ELSE HTTP_PREFIX_BACKWARD)
        \o (IF converter = "RpcConverter" THEN key ELSE to_http_format(key)) :
     key \in WireKvKeys}

IngestNext ==
    /\ ops < MaxWireOps
    /\ StripCalls(IngestKeys, WireKvVals)

IngestSpec == WireInit /\ [][IngestNext]_vars

\* ------------------------------------------------- keys stored in both styles

\* One key as a caller of one style and a caller of the other write it.
StyledKeys == {ShortKey, ShortKeyHttp}

StyledNext == KvCalls(StyledKeys, KvVals)

StyledSpec == KvInit /\ [][StyledNext]_vars

\* ------------------------------------------------------------ a call chain

\* strip_<style>_prefix_and_set_persistent and strip_<style>_prefix_and_set_upstream,
\* both called with every (key, value) of the exported map m, in the given order.
RECURSIVE strip_each_forward(_, _, _, _)
strip_each_forward(node, m, order, converter) ==
    IF order = <<>> THEN node
    ELSE LET key == Head(order)
             persisted == strip_and_set(node, remove_persistent_prefix(converter, key),
                                        "persistent", m[key])
             upstreamed == strip_and_set(persisted, remove_transient_prefix(converter, key),
                                         "stale", m[key])
         IN  strip_each_forward(upstreamed, m, Tail(order), converter)

\* One hop in one style: the last context of the chain exports its forward data,
\* and the next hop's context, made by MetaInfo::new(), is populated from the pairs.
hop(converter) ==
    /\ Budget
    /\ Unused # {}
    /\ LET c == chain[Len(chain)]
           n == Fresh1
           out == get_all_persistents_and_transients(c, converter)
        IN  /\ \E order \in Orders(IF is_some(out) THEN DOMAIN unwrap(out) ELSE {}) :
                Store1(n, [MetaInfo_default EXCEPT !.forward_node =
                    IF is_some(out)
                    THEN strip_each_forward(None, unwrap(out), order, converter)
                    ELSE None])
            /\ status' = [status EXCEPT ![n] = "owned"]
            /\ chain' = Append(chain, n)
            /\ ops' = ops + 1
            /\ last' = Call(IF converter = "RpcConverter" THEN "hop_rpc" ELSE "hop_http",
                            c, "", 0, None, n, 0)
    /\ UNCHANGED <<sib, anchor, written, uninit, codec>>

\* Hop 0 is a context made by MetaInfo::new().
HopInit ==
    /\ status = [c \in Ctx |-> IF c = 1 THEN "owned" ELSE "unused"]
    /\ parent = [c \in Ctx |-> None]
    /\ tmap = [c \in Ctx |-> None]
    /\ smap = [c \in Ctx |-> None]
    /\ faststr_tmap = [c \in Ctx |-> None]
    /\ forward_node = [c \in Ctx |-> None]
    /\ backward_node = [c \in Ctx |-> None]
    /\ last = NoCall
    /\ ops = 0
    /\ sib = {}
    /\ anchor = [c \in Ctx |-> 0]
    /\ written = [c \in Ctx |-> FALSE]
    /\ uninit \in UninitBytes
    /\ chain = <<1>>
    /\ codec = NoCodec

\* Hop 0 sets its keys, then the chain is walked.
HopNext ==
    \/ /\ Len(chain) = 1
       /\ \/ \E key \in WireKvKeys : set_persistent(1, key, "p")
          \/ \E key \in WireKvKeys : set_transient(1, key, "t")
    \/ \E converter \in Converters : hop(converter)

HopSpec == HopInit /\ [][HopNext]_vars

\* ------------------------------------------------- the converters on their own

\* Keys in upper-snake form of every length up to MaxKeyLen, with and without
\* chars of more than one byte.
CodecKeyBases ==
    {<<"L", "O", "N", "G", "_", "T", "E", "S", "T", "_", "K", "E", "Y", "_", "2", "X">>,
     <<"U+4E2D", "K", "U+00E9", "_", "A", "B", "C", "D", "E", "F", "G", "H", "I", "J",
       "K", "L">>}
CodecKeys == {SubSeq(base, 1, n) : base \in CodecKeyBases, n \in 0..MaxKeyLen}
Kinds == {"persistent", "transient", "backward"}

\* converter.add_<kind>_prefix(key) and converter.remove_<kind>_prefix(key)
Converter_add(converter, kind, key) ==
    CASE kind = "persistent" -> add_persistent_prefix(converter, key)
      [] kind = "transient" -> add_transient_prefix(converter, key)
      [] kind = "backward" -> add_backward_prefix(converter, key)
Converter_remove(converter, kind, key) ==
    CASE kind = "persistent" -> remove_persistent_prefix(converter, key)
      [] kind = "transient" -> remove_transient_prefix(converter, key)
      [] kind = "backward" -> remove_backward_prefix(converter, key)

\* No context exists; a converter, a kind and a key are about to be used.
CodecInit ==
    /\ status = [c \in Ctx |-> "unused"]
    /\ parent = [c \in Ctx |-> None]
    /\ tmap = [c \in Ctx |-> None]
    /\ smap = [c \in Ctx |-> None]
    /\ faststr_tmap = [c \in Ctx |-> None]
    /\ forward_node = [c \in Ctx |-> None]
    /\ backward_node = [c \in Ctx |-> None]
    /\ last = NoCall
    /\ ops = 0
    /\ sib = {}
    /\ anchor = [c \in Ctx |-> 0]
    /\ written = [c \in Ctx |-> FALSE]
    /\ uninit \in UninitBytes
    /\ chain = <<>>
    /\ \E converter \in Converters, kind \in Kinds, key \in CodecKeys :
        codec = [pc |-> "start", converter |-> converter, kind |-> kind, key |-> key]

CodecFrame ==
    UNCHANGED <<status, parent, tmap, smap, faststr_tmap, forward_node, backward_node,
                last, ops, sib, anchor, written, uninit, chain>>

\* wire = converter.add_<kind>_prefix(key)
codec_add ==
    /\ codec.pc = "start"
    /\ codec' = [pc |-> "added", converter |-> codec.converter, kind |-> codec.kind,
                 key |-> codec.key,
                 wire |-> Converter_add(codec.converter, codec.kind, codec.key)]
    /\ CodecFrame

\* back = converter.remove_<kind>_prefix(&wire)
codec_remove ==
    /\ codec.pc = "added"
    /\ codec' = [pc |-> "removed", converter |-> codec.converter, kind |-> codec.kind,
                 key |-> codec.key, wire |-> codec.wire,
                 back |-> Converter_remove(codec.converter, codec.kind, codec.wire)]
    /\ CodecFrame

\* again = converter.add_<kind>_prefix(&back.unwrap())
codec_add_again ==
    /\ codec.pc = "removed"
    /\ is_some(codec.back)
    /\ codec' = [pc |-> "readded", converter |-> codec.converter, kind |-> codec.kind,
                 key |-> codec.key, wire |-> codec.wire, back |-> codec.back,
                 again |-> Converter_add(codec.converter, codec.kind, unwrap(codec.back))]
    /\ CodecFrame

CodecNext == codec_add \/ codec_remove \/ codec_add_again

CodecSpec == CodecInit /\ [][CodecNext]_vars

\* ------------------------------------------- the converters on keys off the wire

Prefixes ==
    {RPC_PREFIX_PERSISTENT, RPC_PREFIX_TRANSIENT, RPC_PREFIX_BACKWARD,
     HTTP_PREFIX_PERSISTENT, HTTP_PREFIX_TRANSIENT, HTTP_PREFIX_BACKWARD}

\* A letter in the other case, a separator in the other style.
other_style(ch) == IF http_char(ch) # ch THEN http_char(ch) ELSE rpc_char(ch)

\* What a key off the wire can begin with: nothing, one of the six prefixes, or a
\* prefix with its first letter in the other case, with its first or its last
\* separator in the other style, or without its last separator.
WireHeads ==
    {<<>>} \cup Prefixes
    \cup {[prefix EXCEPT ![1] = other_style(@)] : prefix \in Prefixes}
    \cup {[prefix EXCEPT ![4] = other_style(@)] : prefix \in Prefixes}
    \cup {[prefix EXCEPT ![Len(prefix)] = other_style(@)] : prefix \in Prefixes}
    \cup {SubSeq(prefix, 1, Len(prefix) - 1) : prefix \in Prefixes}

\* What can follow: nothing, a key in one style and in the other, and keys of mixed
\* case with chars of one, two and three bytes whose lengths in bytes lie on both
\* sides of FASTSTR_INLINE_SIZE, alone and under a prefix (a prefix of n chars of the
\* base, n >= 8, has n + 3 bytes).
WireRestBase ==
    <<"k", "-", "U+00E9", "X", "_", "9", ".", "U+4E2D", "a", "B", "c", "D", "e", "F",
      "g", "H", "i", "J", "k", "L", "m", "N", "o", "P">>
WireRests ==
    {<<>>, <<"A", "_", "1">>, <<"a", "-", "1">>}
    \cup {SubSeq(WireRestBase, 1, n) :
            n \in (FASTSTR_INLINE_SIZE - 4)..(FASTSTR_INLINE_SIZE - 1)}
    \cup {SubSeq(WireRestBase, 1, n) :
            n \in (FASTSTR_INLINE_SIZE - 16)..(FASTSTR_INLINE_SIZE - 14)}
KeyInputs == {head \o rest : head \in WireHeads, rest \in WireRests}

\* No context exists; a key has come off the wire.
KeyInit ==
    /\ status = [c \in Ctx |-> "unused"]
    /\ parent = [c \in Ctx |-> None]
    /\ tmap = [c \in Ctx |-> None]
    /\ smap = [c \in Ctx |-> None]
    /\ faststr_tmap = [c \in Ctx |-> None]
    /\ forward_node = [c \in Ctx |-> None]
    /\ backward_node = [c \in Ctx |-> None]
    /\ last = NoCall
    /\ ops = 0
    /\ sib = {}
    /\ anchor = [c \in Ctx |-> 0]
    /\ written = [c \in Ctx |-> FALSE]
    /\ uninit \in UninitBytes
    /\ chain = <<>>
    /\ \E key \in KeyInputs : codec = [pc |-> "key", key |-> key]

\* back = converter.remove_<kind>_prefix(key)
key_remove(converter, kind) ==
    /\ codec.pc = "key"
    /\ codec' = [pc |-> "stripped", converter |-> converter, kind |-> kind,
                 key |-> codec.key, back |-> Converter_remove(converter, kind, codec.key)]
    /\ CodecFrame

\* wire = converter.add_<kind>_prefix(key)
key_add(converter, kind) ==
    /\ codec.pc = "key"
    /\ codec' = [pc |-> "added", converter |-> converter, kind |-> kind,
                 key |-> codec.key, wire |-> Converter_add(converter, kind, codec.key)]
    /\ CodecFrame

\* out = to_http_format_string(key), out = to_rpc_format_string(key): the buffer of
\* key.len() bytes after to_http_format / to_rpc_format wrote to it.
key_to_http ==
    /\ codec.pc = "key"
    /\ codec' = [pc |-> "http", key |-> codec.key, out |-> to_http_format(codec.key)]
    /\ CodecFrame
key_to_rpc ==
    /\ codec.pc = "key"
    /\ codec' = [pc |-> "rpc", key |-> codec.key, out |-> to_rpc_format(codec.key)]
    /\ CodecFrame

\* back = to_rpc_format_string(&out), back = to_http_format_string(&out)
key_back_to_rpc ==
    /\ codec.pc = "http"
    /\ codec' = [pc |-> "http_rpc", key |-> codec.key, out |-> codec.out,
                 back |-> to_rpc_format(codec.out)]
    /\ CodecFrame
key_back_to_http ==
    /\ codec.pc = "rpc"
    /\ codec' = [pc |-> "rpc_http", key |-> codec.key, out |-> codec.out,
                 back |-> to_http_format(codec.out)]
    /\ CodecFrame

KeyNext ==
    \/ \E converter \in Converters, kind \in Kinds : key_remove(converter, kind)
    \/ \E converter \in Converters, kind \in Kinds : key_add(converter, kind)
    \/ key_to_http
    \/ key_to_rpc
    \/ key_back_to_rpc
    \/ key_back_to_http

KeySpec == KeyInit /\ [][KeyNext]_vars

\* ------------------------------------------------- the entry slot of a TypeMap

\* Values of the stored types, closed under the closures below.
EntryVals == {-2, -1, 0, 1, 2}
\* Closures handed to or_insert_with, or_insert_with_key and and_modify.
Defaults == {[args \in {NoArgs} |-> d] : d \in Vals}
KeyDefaults == {[T \in Types |-> IF T = "i8" THEN 1 ELSE 2], [T \in Types |-> -1]}
Modifiers == {[v \in EntryVals |-> -v], [v \in EntryVals |-> 0]}

\* No context exists; one TypeMap, empty or holding a value, is about to be used.
EntryInit ==
    /\ status = [c \in Ctx |-> "unused"]
    /\ parent = [c \in Ctx |-> None]
    /\ tmap = [c \in Ctx |-> None]
    /\ smap = [c \in Ctx |-> None]
    /\ faststr_tmap = [c \in Ctx |-> None]
    /\ forward_node = [c \in Ctx |-> None]
    /\ backward_node = [c \in Ctx |-> None]
    /\ last = NoCall
    /\ ops = 0
    /\ sib = {}
    /\ anchor = [c \in Ctx |-> 0]
    /\ written = [c \in Ctx |-> FALSE]
    /\ uninit \in UninitBytes
    /\ chain = <<>>
    /\ \E inner \in {TypeMap_with_capacity, TypeMap_insert(TypeMap_with_capacity, "i8", 1)} :
        codec = [pc |-> "map", inner |-> inner, n |-> 0]

\* map.entry::<T>().or_insert(default)
entry_or_insert(T, default) ==
    /\ codec.n < MaxOps
    /\ LET r == Entry_or_insert(TypeMap_entry(codec.inner, T), default)
       IN codec' = [pc |-> "called", inner |-> r.inner, n |-> codec.n + 1,
                    op |-> "or_insert", T |-> T, d |-> default, ret |-> r.ret]
    /\ CodecFrame
\* map.entry::<T>().or_insert_with(default)
entry_or_insert_with(T, default) ==
    /\ codec.n < MaxOps
    /\ LET r == Entry_or_insert_with(TypeMap_entry(codec.inner, T), default)
       IN codec' = [pc |-> "called", inner |-> r.inner, n |-> codec.n + 1,
                    op |-> "or_insert_with", T |-> T, d |-> default[NoArgs],
                    ret |-> r.ret]
    /\ CodecFrame
\* map.entry::<T>().or_insert_with_key(default)
entry_or_insert_with_key(T, default) ==
    /\ codec.n < MaxOps
    /\ LET r == Entry_or_insert_with_key(TypeMap_entry(codec.inner, T), default)
       IN codec' = [pc |-> "called", inner |-> r.inner, n |-> codec.n + 1,
                    op |-> "or_insert_with_key", T |-> T, d |-> default[T],
                    ret |-> r.ret]
    /\ CodecFrame
\* map.entry::<T>().or_default()
entry_or_default(T) ==
    /\ codec.n < MaxOps
    /\ LET r == Entry_or_default(TypeMap_entry(codec.inner, T))
       IN codec' = [pc |-> "called", inner |-> r.inner, n |-> codec.n + 1,
                    op |-> "or_default", T |-> T, d |-> V_default[NoArgs],
                    ret |-> r.ret]
    /\ CodecFrame
\* map.entry::<T>().and_modify(f); the entry it returns is dropped.
entry_and_modify(T, f) ==
    /\ codec.n < MaxOps
    /\ LET r == Entry_and_modify(TypeMap_entry(codec.inner, T), f)
       IN codec' = [pc |-> "called", inner |-> r.inner, n |-> codec.n + 1,
                    op |-> "and_modify", T |-> T, f |-> f]
    /\ CodecFrame

EntryNext ==
    \/ \E T \in Types, default \in Vals : entry_or_insert(T, default)
    \/ \E T \in Types, default \in Defaults : entry_or_insert_with(T, default)
    \/ \E T \in Types, default \in KeyDefaults : entry_or_insert_with_key(T, default)
    \/ \E T \in Types : entry_or_default(T)
    \/ \E T \in Types, f \in Modifiers : entry_and_modify(T, f)

EntrySpec == EntryInit /\ [][EntryNext]_vars

\* ----------------------------------------------------------- observations

\* Everything a caller can read from context c through the public read methods
\* named by the claims: typed, string and faststr lookups, the five segment gets
\* and the four prefixed bulk exports.
Observe(c) ==
    [get |-> [T \in Types |-> get(c, T)],
     get_string |-> [k \in StrKeys |-> get_string(c, k)],
     get_faststr |-> [T \in FastTypes |-> get_faststr(c, T)],
     contains |-> [T \in Types |-> contains(c, T)],
     contains_string |-> [k \in StrKeys |-> contains_string(c, k)],
     contains_faststr |-> [T \in FastTypes |-> contains_faststr(c, T)],
     get_persistent |-> [k \in KvKeys |-> get_persistent(c, k)],
     get_transient |-> [k \in KvKeys |-> get_transient(c, k)],
     get_upstream |-> [k \in KvKeys |-> get_upstream(c, k)],
     get_backward_transient |-> [k \in KvKeys |-> get_backward_transient(c, k)],
     get_backward_downstream |-> [k \in KvKeys |-> get_backward_downstream(c, k)],
     forward_rpc |-> get_all_persistents_and_transients_with_rpc_prefix(c),
     forward_http |-> get_all_persistents_and_transients_with_http_prefix(c),
     backward_rpc |-> get_all_backward_transients_with_rpc_prefix(c),
     backward_http |-> get_all_backward_transients_with_http_prefix(c)]

\* What the same reads return on a context that holds nothing and has no parent.
ObserveNothing ==
    [get |-> [T \in Types |-> None],
     get_string |-> [k \in StrKeys |-> None],
     get_faststr |-> [T \in FastTypes |-> None],
     contains |-> [T \in Types |-> FALSE],
     contains_string |-> [k \in StrKeys |-> FALSE],
     contains_faststr |-> [T \in FastTypes |-> FALSE],
     get_persistent |-> [k \in KvKeys |-> None],
     get_transient |-> [k \in KvKeys |-> None],
     get_upstream |-> [k \in KvKeys |-> None],
     get_backward_transient |-> [k \in KvKeys |-> None],
     get_backward_downstream |-> [k \in KvKeys |-> None],
     forward_rpc |-> None,
     forward_http |-> None,
     backward_rpc |-> None,
     backward_http |-> None]

\* The n-th scope on the chain c, parent(c), parent(parent(c)), ...
RECURSIVE ancestor(_, _)
ancestor(c, n) == IF n = 0 THEN c ELSE ancestor(unwrap(parent[c]), n - 1)

\* The scopes strictly above c.
Ancestors(c) == {ancestor(c, n) : n \in 1..depth(c)}

\* Whether scope x holds key locally in its store (tmap, smap or faststr_tmap).
HoldsLocally(store, x, key) == is_some(store[x]) /\ key \in DOMAIN unwrap(store[x])
LocalValue(store, x, key) == IF HoldsLocally(store, x, key) THEN Some(unwrap(store[x])[key]) ELSE None

\* The distances from c of the scopes on its chain that hold key locally.
Holders(store, c, key) == {n \in 0..depth(c) : HoldsLocally(store, ancestor(c, n), key)}

\* The value of the nearest scope on c's chain that holds key locally, if any does.
Nearest(store, c, key) ==
    IF Holders(store, c, key) = {} THEN None
    ELSE LET n == CHOOSE i \in Holders(store, c, key) : \A j \in Holders(store, c, key) : i <= j
         IN  Some(unwrap(store[ancestor(c, n)])[key])

\* Every local field of scope x.
Local(x) ==
    <<parent[x], tmap[x], smap[x], faststr_tmap[x], forward_node[x], backward_node[x]>>

\* ------------------------------------------------------------------ claims

\* C1: in every reachable state, for every context and every type, string key and
\* faststr newtype, get / get_string / get_faststr return the value held locally by
\* the nearest scope on the parent chain that holds it, and None exactly when no
\* scope on the chain holds it.
C1_GetReturnsNearest ==
    \A c \in Alive :
        /\ \A T \in Types : get(c, T) = Nearest(tmap, c, T)
        /\ \A k \in StrKeys : get_string(c, k) = Nearest(smap, c, k)
        /\ \A T \in FastTypes : get_faststr(c, T) = Nearest(faststr_tmap, c, T)

\* A context that does not hold i8 itself while two scopes above it do, with
\* different values: the lookup has to stop at the nearer one.
C1_Witness ==
    \E c \in Owned :
        /\ 0 \notin Holders(tmap, c, "i8")
        /\ {1, 2} \subseteq Holders(tmap, c, "i8")
        /\ LocalValue(tmap, ancestor(c, 1), "i8") # LocalValue(tmap, ancestor(c, 2), "i8")
        /\ get(c, "i8") = LocalValue(tmap, ancestor(c, 1), "i8")

\* The parent's answer to a lookup of c that misses locally.
FromParent(c, lookup(_, _), key) ==
    IF is_some(parent[c]) THEN lookup(unwrap(parent[c]), key) ELSE None

\* What a remove call on c for key in store must do: return c's local value, leave
\* every ancestor as it was, and let c read the nearest ancestor's value afterwards.
RemoveIsLocal(c, key, store, lookup(_, _)) ==
    /\ last'.ret = LocalValue(store, c, key)
    /\ \A x \in Ancestors(c) : Local(x)' = Local(x)
    /\ lookup(c, key)' = FromParent(c, lookup, key)

\* C2: remove::<T>(), remove_string and remove_faststr on a context return its local
\* value (None when it holds none locally), change no ancestor, and afterwards the
\* context's lookup returns the nearest ancestor's value, if an ancestor holds one.
C2_RemoveIsLocal ==
    [][\A c \in Ctx :
        /\ \A T \in Types :
            (last'.op = "remove" /\ last'.c = c /\ last'.k = T)
                => RemoveIsLocal(c, T, tmap, get)
        /\ \A k \in StrKeys :
            (last'.op = "remove_string" /\ last'.c = c /\ last'.k = k)
                => RemoveIsLocal(c, k, smap, get_string)
        /\ \A T \in FastTypes :
            (last'.op = "remove_faststr" /\ last'.c = c /\ last'.k = T)
                => RemoveIsLocal(c, T, faststr_tmap, get_faststr)]_vars

\* A remove that returned the local value and uncovered a different value held by
\* an ancestor.
C2_Witness ==
    /\ last.op = "remove"
    /\ is_some(last.ret)
    /\ is_some(get(last.c, last.k))
    /\ get(last.c, last.k) # last.ret
    /\ ~HoldsLocally(tmap, last.c, last.k)

\* What an insert call on c must do: c reads v afterwards, no other scope's local
\* fields change, and no other context reads anything else than before.
InsertIsLocal(c, key, v, lookup(_, _)) ==
    /\ lookup(c, key)' = Some(v)
    /\ \A x \in Alive \ {c} :
        /\ Local(x)' = Local(x)
        /\ lookup(x, key)' = lookup(x, key)

\* C3: insert::<T>(v), insert_string and insert_faststr write the context's local
\* store only: the context reads v afterwards whatever its ancestors hold, every
\* ancestor's local value and every other context's reads are unchanged.
C3_InsertIsLocal ==
    [][\A c \in Ctx, v \in Vals :
        /\ \A T \in Types :
            (last'.op = "insert" /\ last'.c = c /\ last'.k = T /\ last'.v = v)
                => InsertIsLocal(c, T, v, get)
        /\ \A k \in StrKeys :
            (last'.op = "insert_string" /\ last'.c = c /\ last'.k = k /\ last'.v = v)
                => InsertIsLocal(c, k, v, get_string)
        /\ \A T \in FastTypes :
            (last'.op = "insert_faststr" /\ last'.c = c /\ last'.k = T /\ last'.v = v)
                => InsertIsLocal(c, T, v, get_faststr)]_vars

\* An insert that shadows a different value of an ancestor, while a sibling goes on
\* reading the ancestor's value.
C3_Witness ==
    /\ last.op = "insert"
    /\ is_some(parent[last.c])
    /\ is_some(get(unwrap(parent[last.c]), last.k))
    /\ get(unwrap(parent[last.c]), last.k) # get(last.c, last.k)
    /\ \E x \in Owned \ {last.c} :
        /\ parent[x] = parent[last.c]
        /\ get(x, last.k) = get(unwrap(parent[last.c]), last.k)

\* C4: right after X.derive() returns (A, B), every read on A and on B returns what
\* it returned on X before the call.
C4_DeriveKeepsObservations ==
    [][\A x \in Ctx, a \in Ctx, b \in Ctx :
        (last'.op = "derive" /\ last'.c = x /\ last'.a = a /\ last'.b = b)
            => /\ Observe(a)' = Observe(x)
               /\ Observe(b)' = Observe(x)]_vars

\* A derive of a context that held a typed value and forward data: the original was
\* promoted and a child reads both.
C4_Witness ==
    /\ last.op = "derive"
    /\ status[last.c] = "promoted"
    /\ is_some(get(last.b, "i8"))
    /\ is_some(get_persistent(last.b, <<"K">>))

\* The calls that change the context they are made on.
Mutators ==
    {"insert", "insert_string", "insert_faststr", "remove", "remove_string",
     "remove_faststr", "clear", "extend",
     "set_persistent", "set_transient", "set_upstream",
     "del_persistent", "del_transient", "del_upstream",
     "set_backward_transient", "set_backward_downstream",
     "del_backward_transient", "del_backward_downstream",
     "strip_rpc_prefix_and_set_persistent", "strip_rpc_prefix_and_set_upstream",
     "strip_http_prefix_and_set_persistent", "strip_http_prefix_and_set_upstream",
     "strip_rpc_prefix_and_set_backward_downstream",
     "strip_http_prefix_and_set_backward_downstream"}

\* C5: a mutating call on a context leaves every read of each of its siblings (the
\* other result of the derive that made it, or another context built from the same
\* parent) unchanged.
C5_SiblingsAreIndependent ==
    [][\A c \in Ctx : \A x \in Ctx \ {c} :
        (/\ last'.op \in Mutators
         /\ last'.c = c
         /\ {c, x} \in sib
         /\ status[x] = "owned"
         /\ status'[x] = "owned")
            => Observe(x)' = Observe(x)]_vars

\* A context was cleared and its sibling, derived before, still reads the typed
\* value of the ancestor the cleared one no longer reaches.
C5_Witness ==
    /\ last.op = "clear"
    /\ \E x \in Owned :
        /\ {last.c, x} \in sib
        /\ x # last.c
        /\ is_some(get(x, "i8"))
        /\ is_none(get(last.c, "i8"))

\* Context c holds no local typed, string or faststr entry: each store is
\* unallocated or empty.
HoldsNoLocalEntry(c) ==
    no_entry(tmap[c]) /\ no_entry(smap[c]) /\ no_entry(faststr_tmap[c])

\* The two results of derive(x) hang under x's own parent, one level no deeper.
SharesParent(x, a, b) ==
    /\ parent'[a] = parent[x]
    /\ parent'[b] = parent[x]
    /\ depth(a)' = depth(x)
    /\ depth(b)' = depth(x)

\* The two results of derive(x) hang under x, which is promoted with its stores.
UnderPromoted(x, a, b) ==
    /\ parent'[a] = Some(x)
    /\ parent'[b] = Some(x)
    /\ status'[x] = "promoted"
    /\ <<parent[x], tmap[x], smap[x], faststr_tmap[x]>>'
            = <<parent[x], tmap[x], smap[x], faststr_tmap[x]>>

\* C6 as stated: derive() on a context that holds no local typed, string or faststr
\* entry (never had one, or all removed or cleared) returns two contexts under the
\* original's parent; on a context that holds an entry, two contexts under the
\* promoted original.
C6_Original ==
    [][\A x \in Ctx, a \in Ctx, b \in Ctx :
        (last'.op = "derive" /\ last'.c = x /\ last'.a = a /\ last'.b = b)
            => IF HoldsNoLocalEntry(x) THEN SharesParent(x, a, b)
               ELSE UnderPromoted(x, a, b)]_vars

\* C6 amended: derive() on a context on which no insert, insert_string or
\* insert_faststr was ever made (nor on a context it absorbed through extend)
\* returns two contexts under the original's parent, adding no level; derive() on
\* a context on which one was made returns two contexts under the promoted
\* original, also when every entry was removed again or cleared.
C6_DeriveByAllocation ==
    [][\A x \in Ctx, a \in Ctx, b \in Ctx :
        (last'.op = "derive" /\ last'.c = x /\ last'.a = a /\ last'.b = b)
            => IF ~written[x] THEN SharesParent(x, a, b)
               ELSE UnderPromoted(x, a, b)]_vars

\* A derive that promoted a context whose entries had all been removed or cleared.
C6_Witness ==
    /\ last.op = "derive"
    /\ written[last.c]
    /\ HoldsNoLocalEntry(last.c)
    /\ parent[last.a] = Some(last.c)
    /\ parent[last.b] = Some(last.c)

\* C7: a context reached from X by derive() and forward/backward set/del calls only
\* is at most one level deeper than X, however many derives were made: anchor[c] is
\* the depth of c's lineage after the last call of another kind.
C7_DeriveDepthBounded ==
    \A c \in Owned : depth(c) <= anchor[c] + 1

\* The result of a derive made on the result of a derive that had promoted its
\* original: two derives in the lineage, one level added.
C7_Witness ==
    /\ last.op = "derive"
    /\ last.a = last.c
    /\ status[last.b] = "owned"
    /\ is_some(parent[last.b])
    /\ status[unwrap(parent[last.b])] = "promoted"
    /\ depth(last.b) = anchor[last.b] + 1

ExtendMergesStore(c, other, store, lookup(_, _), keys) ==
    \A key \in keys :
        /\ LocalValue(store, c, key)' =
                IF HoldsLocally(store, other, key) THEN LocalValue(store, other, key)
                ELSE LocalValue(store, c, key)
        /\ lookup(c, key)' =
                IF HoldsLocally(store, other, key) THEN LocalValue(store, other, key)
                ELSE lookup(c, key)

\* C9: after self.extend(other), self's lookup returns other's value for every type,
\* string key and faststr newtype other held locally; self's other local entries
\* are kept; what other saw only through its ancestors is not brought in; and
\* self's parent link is unchanged.
C9_ExtendMergesLocalStores ==
    [][\A c \in Ctx, other \in Ctx :
        (last'.op = "extend" /\ last'.c = c /\ last'.a = other)
            => /\ ExtendMergesStore(c, other, tmap, get, Types)
               /\ ExtendMergesStore(c, other, smap, get_string, StrKeys)
               /\ ExtendMergesStore(c, other, faststr_tmap, get_faststr, FastTypes)
               /\ parent'[c] = parent[c]]_vars

\* An extend after which self holds one type it had and one it took from other.
C9_Witness ==
    /\ last.op = "extend"
    /\ HoldsLocally(tmap, last.c, "i8")
    /\ HoldsLocally(tmap, last.c, "i16")
    /\ status[last.a] = "moved"

\* C10: after self.extend(other), every segment of self's forward and backward node
\* holds, for every key, other's value when other's segment held the key and self's
\* former value otherwise, whatever was allocated on either side.
C10_ExtendMergesSegments ==
    [][\A c \in Ctx, other \in Ctx :
        (last'.op = "extend" /\ last'.c = c /\ last'.a = other)
            => \A name \in Segments, key \in KvKeys :
                /\ get_impl(forward_node[c], name, key)' =
                    IF is_some(get_impl(forward_node[other], name, key))
                    THEN get_impl(forward_node[other], name, key)
                    ELSE get_impl(forward_node[c], name, key)
                /\ get_impl(backward_node[c], name, key)' =
                    IF is_some(get_impl(backward_node[other], name, key))
                    THEN get_impl(backward_node[other], name, key)
                    ELSE get_impl(backward_node[c], name, key)]_vars

\* An extend after which self's persistent segment holds both keys, with
\* different values.
C10_Witness ==
    /\ last.op = "extend"
    /\ is_some(get_persistent(last.c, <<"K">>))
    /\ is_some(get_persistent(last.c, <<"A", "_", "B">>))
    /\ get_persistent(last.c, <<"K">>) # get_persistent(last.c, <<"A", "_", "B">>)

\* The five segments a context offers, by the name its set_, del_ and get_ methods
\* carry.
SegmentNames ==
    {"persistent", "transient", "upstream", "backward_transient", "backward_downstream"}
SegmentRead(c, name, key) ==
    CASE name = "persistent" -> get_persistent(c, key)
      [] name = "transient" -> get_transient(c, key)
      [] name = "upstream" -> get_upstream(c, key)
      [] name = "backward_transient" -> get_backward_transient(c, key)
      [] name = "backward_downstream" -> get_backward_downstream(c, key)
SetOps ==
    {"set_persistent", "set_transient", "set_upstream", "set_backward_transient",
     "set_backward_downstream"}
DelOps ==
    {"del_persistent", "del_transient", "del_upstream", "del_backward_transient",
     "del_backward_downstream"}
\* The segment a set or del call is made on.
SegmentOf ==
    [set_persistent |-> "persistent", set_transient |-> "transient",
     set_upstream |-> "upstream", set_backward_transient |-> "backward_transient",
     set_backward_downstream |-> "backward_downstream",
     del_persistent |-> "persistent", del_transient |-> "transient",
     del_upstream |-> "upstream", del_backward_transient |-> "backward_transient",
     del_backward_downstream |-> "backward_downstream"]

C12_DelOfAbsentIsNoOp ==
    [][\A c \in Ctx, name \in SegmentNames, key \in KvKeys :
        (/\ last'.op \in DelOps /\ SegmentOf[last'.op] = name
         /\ last'.c = c /\ last'.k = key
         /\ is_none(SegmentRead(c, name, key)))
            => /\ fields' = fields
               /\ status' = status]_vars

\* A del on a context whose forward node was never allocated, after which it is
\* still not allocated.
C12_Witness ==
    /\ last.op = "del_upstream"
    /\ is_none(forward_node[last.c])
    /\ \E c \in Owned \ {last.c} :
        /\ is_some(forward_node[c])
        /\ is_none(unwrap(forward_node[c]).stale)

\* The prefix each strip-and-set call expects and the segment it writes.
StripOps ==
    {[op |-> "strip_rpc_prefix_and_set_persistent", prefix |-> RPC_PREFIX_PERSISTENT,
      segment |-> "persistent"],
     [op |-> "strip_rpc_prefix_and_set_upstream", prefix |-> RPC_PREFIX_TRANSIENT,
      segment |-> "upstream"],
     [op |-> "strip_http_prefix_and_set_persistent", prefix |-> HTTP_PREFIX_PERSISTENT,
      segment |-> "persistent"],
     [op |-> "strip_http_prefix_and_set_upstream", prefix |-> HTTP_PREFIX_TRANSIENT,
      segment |-> "upstream"],
     [op |-> "strip_rpc_prefix_and_set_backward_downstream", prefix |-> RPC_PREFIX_BACKWARD,
      segment |-> "backward_downstream"],
     [op |-> "strip_http_prefix_and_set_backward_downstream",
      prefix |-> HTTP_PREFIX_BACKWARD, segment |-> "backward_downstream"]}

\* C13: a strip-prefix-and-set call whose key starts with the prefix the call
\* expects stores the value under the stripped key in upper-snake form (ShortKey
\* for every prefixed wire key), where the matching get returns it; a call whose
\* key lacks that prefix changes nothing of any context.
C13_StripAndSet ==
    [][\A c \in Ctx, key \in AllWireKeys, s \in StripOps :
        (last'.op = s.op /\ last'.c = c /\ last'.k = key)
            => IF starts_with(key, s.prefix)
               THEN SegmentRead(c, s.segment, ShortKey)' = Some(last'.v)
               ELSE fields' = fields /\ status' = status]_vars

\* An RPC-style strip of a key that carries the HTTP-style prefix, which wrote
\* nothing, on a context where an HTTP-style strip had stored its value under the
\* upper-snake key before.
C13_Witness ==
    /\ last.op = "strip_rpc_prefix_and_set_persistent"
    /\ last.k = HTTP_PREFIX_PERSISTENT \o ShortKeyHttp
    /\ get_upstream(last.c, ShortKey) = Some("w")
    /\ is_none(get_all_persistents(last.c))

\* The prefix of a kind in a style, and a key of the wire domain in a style, as the
\* prefix table and the key forms are documented.
StylePrefix(converter, kind) ==
    IF converter = "RpcConverter"
    THEN CASE kind = "persistent" -> RPC_PREFIX_PERSISTENT
           [] kind = "transient" -> RPC_PREFIX_TRANSIENT
           [] kind = "backward" -> RPC_PREFIX_BACKWARD
    ELSE CASE kind = "persistent" -> HTTP_PREFIX_PERSISTENT
           [] kind = "transient" -> HTTP_PREFIX_TRANSIENT
           [] kind = "backward" -> HTTP_PREFIX_BACKWARD
InStyle(converter, key) ==
    IF converter = "RpcConverter" THEN key
    ELSE IF key = LongKey THEN LongKeyHttp ELSE ShortKeyHttp

\* The entries of an Option<map> as a set of pairs, and those of one segment with
\* their keys carrying a kind's prefix in a style.
Pairs(o) == IF is_none(o) THEN {} ELSE {<<k, unwrap(o)[k]>> : k \in DOMAIN unwrap(o)}
Prefixed(o, converter, kind) ==
    {<<StylePrefix(converter, kind) \o InStyle(converter, e[1]), e[2]>> : e \in Pairs(o)}

\* C14 as stated: the forward bulk export of a style is None when the persistent
\* and transient segments hold no entry in total, and otherwise Some of exactly the
\* persistent entries under the style's persistent prefix and the transient entries
\* under its transient prefix, keys in the style's form; no upstream entry.
C14_Original ==
    \A c \in Owned, converter \in Converters :
        LET expected == Prefixed(get_all_persistents(c), converter, "persistent")
                        \cup Prefixed(get_all_transients(c), converter, "transient")
            out == get_all_persistents_and_transients(c, converter)
        IN  IF expected = {} THEN is_none(out)
            ELSE is_some(out) /\ Pairs(out) = expected

\* C15 as stated: the backward bulk export of a style is None when the backward
\* transient segment holds no entry, and otherwise Some of exactly its entries
\* under the style's backward prefix; no downstream entry.
C15_Original ==
    \A c \in Owned, converter \in Converters :
        LET expected == Prefixed(get_all_backward_transients(c), converter, "backward")
            out == get_all_backword_transients_with_prefix(c, converter)
        IN  IF expected = {} THEN is_none(out)
            ELSE is_some(out) /\ Pairs(out) = expected

\* C16 as stated: when the callee has set_backward_transient(k, v), its backward
\* bulk export of a style is taken, and the caller feeds every exported pair to
\* the strip-and-set backward downstream call of the same style, the caller's
\* get_backward_downstream(k) returns v.  (Every call increments ops.)
C16_Original ==
    [][\A caller \in Ctx, callee \in Ctx, key \in WireKvKeys :
        (/\ last'.op \in {"return_backward_rpc", "return_backward_http"}
         /\ last'.c = caller /\ last'.a = callee
         /\ is_some(get_backward_transient(callee, key)))
            => get_backward_downstream(caller, key)'
                    = get_backward_transient(callee, key)]_ops

\* C17 as stated: along a chain of hops, each populated from the previous hop's
\* forward bulk export through both strip-and-set calls of the style, an
\* upper-snake key set persistent at hop 0 is returned by get_persistent at every
\* later hop; a key set transient at hop 0 is returned by get_upstream at hop 1,
\* is not returned by get_transient at hop 1, is not in hop 1's export, and is
\* read neither as transient nor as upstream from hop 2 on.
C17_Original ==
    \A i \in 2..Len(chain), key \in WireKvKeys :
        /\ is_some(get_persistent(chain[1], key))
            => get_persistent(chain[i], key) = get_persistent(chain[1], key)
        /\ is_some(get_transient(chain[1], key))
            => /\ is_none(get_transient(chain[i], key))
               /\ IF i = 2
                  THEN /\ get_upstream(chain[2], key) = get_transient(chain[1], key)
                       /\ \A converter \in Converters :
                            <<StylePrefix(converter, "transient") \o InStyle(converter, key),
                              "t">> \notin
                                Pairs(get_all_persistents_and_transients(chain[2], converter))
                  ELSE is_none(get_upstream(chain[i], key))

\* The lower-kebab translation of a key, and a key in the form of a style.
Kebab(key) ==
    [i \in 1..Len(key) |-> IF key[i] = "_" THEN "-" ELSE to_ascii_lowercase(key[i])]
KeyInStyle(converter, key) == IF converter = "RpcConverter" THEN key ELSE Kebab(key)

\* C18 as stated: for every key k, kind and style,
\* remove_<kind>_prefix(add_<kind>_prefix(k)) returns Some(k).
C18_Original ==
    codec.pc = "removed" => codec.back = Some(codec.key)

\* C19 as stated: for every key k of any length, kind and style,
\* add_<kind>_prefix(remove_<kind>_prefix(add_<kind>_prefix(k))) is defined and
\* equals add_<kind>_prefix(k).
C19_Original ==
    /\ codec.pc = "removed" => is_some(codec.back)
    /\ codec.pc = "readded" => codec.again = codec.wire

\* C20 as stated: for every key k of every length, kind and style,
\* add_<kind>_prefix(k) is the style's prefix followed by k (RPC style) or by the
\* kebab translation of k (HTTP style), within the inline capacity or beyond it.
C20_Original ==
    codec.pc = "added"
        => codec.wire = StylePrefix(codec.converter, codec.kind)
                            \o KeyInStyle(codec.converter, codec.key)

\* Whether key begins with every char of prefix, and the chars after them.
BeginsWith(key, prefix) ==
    Len(key) >= Len(prefix) /\ \A i \in 1..Len(prefix) : key[i] = prefix[i]
After(key, prefix) == [i \in 1..(Len(key) - Len(prefix)) |-> key[Len(prefix) + i]]
\* The upper-snake translation of a key.
UpperSnake(key) ==
    [i \in 1..Len(key) |-> IF key[i] = "-" THEN "_" ELSE to_ascii_uppercase(key[i])]

\* C21: for each prefix kind and both styles, remove_<kind>_prefix(key) returns None
\* exactly when key does not begin with that kind's exact prefix in that style (a
\* key that differs in case or in one separator, or carries another kind's or the
\* other style's prefix, gives None), and otherwise Some of the rest of the key,
\* translated to upper-snake in the HTTP style.
C21_RemovePrefixIsExact ==
    codec.pc = "stripped" =>
        LET prefix == StylePrefix(codec.converter, codec.kind)
            rest == After(codec.key, prefix)
        IN  IF BeginsWith(codec.key, prefix)
            THEN codec.back = Some(IF codec.converter = "RpcConverter" THEN rest
                                   ELSE UpperSnake(rest))
            ELSE codec.back = None

\* An HTTP-style strip of a key of more than FASTSTR_INLINE_SIZE bytes after its
\* prefix, with chars of several bytes, returned in upper-snake form.
C21_Witness ==
    /\ codec.pc = "stripped"
    /\ codec.converter = "HttpConverter"
    /\ codec.kind = "backward"
    /\ is_some(codec.back)
    /\ str_len(unwrap(codec.back)) > FASTSTR_INLINE_SIZE
    /\ "U+4E2D" \in {unwrap(codec.back)[i] : i \in DOMAIN unwrap(codec.back)}
    /\ unwrap(codec.back) # After(codec.key, HTTP_PREFIX_BACKWARD)

\* What the translation to kebab, and to snake, makes of one char.
KebabOf(a, b) ==
    \/ \E n \in DOMAIN UpperChars : a = UpperChars[n] /\ b = LowerChars[n]
    \/ a = "_" /\ b = "-"
    \/ a # "_" /\ (\A n \in DOMAIN UpperChars : a # UpperChars[n]) /\ b = a
SnakeOf(a, b) ==
    \/ \E n \in DOMAIN LowerChars : a = LowerChars[n] /\ b = UpperChars[n]
    \/ a = "-" /\ b = "_"
    \/ a # "-" /\ (\A n \in DOMAIN LowerChars : a # LowerChars[n]) /\ b = a

\* C22: to_http_format maps each char A-Z to its lowercase and '_' to '-',
\* to_rpc_format each char a-z to its uppercase and '-' to '_', and every other
\* char, those of several bytes included, is copied at the same position: the
\* output has as many chars and as many bytes as the input.
C22_TranslationIsPositionWise ==
    codec.pc \in {"http", "rpc"} =>
        /\ Len(codec.out) = Len(codec.key)
        /\ str_len(codec.out) = str_len(codec.key)
        /\ \A i \in 1..Len(codec.key) :
            IF codec.pc = "http" THEN KebabOf(codec.key[i], codec.out[i])
            ELSE SnakeOf(codec.key[i], codec.out[i])

\* A key with letters of both cases, both separators, a digit, a dot and chars of
\* two and three bytes, translated to kebab: longer in bytes than in chars, and
\* changed.
C22_Witness ==
    /\ codec.pc = "http"
    /\ {"k", "-", "U+00E9", "X", "_", "9", ".", "U+4E2D"}
            \subseteq {codec.key[i] : i \in DOMAIN codec.key}
    /\ str_len(codec.out) > Len(codec.out)
    /\ codec.out # codec.key

\* The chars of the two canonical forms of a key.
Digits == {"0", "1", "2", "3", "4", "5", "6", "7", "8", "9"}
IsCanonicalSnake(key) ==
    \A i \in 1..Len(key) :
        key[i] \in Digits \cup {"_"} \/ \E n \in DOMAIN UpperChars : key[i] = UpperChars[n]
IsCanonicalKebab(key) ==
    \A i \in 1..Len(key) :
        key[i] \in Digits \cup {"-"} \/ \E n \in DOMAIN LowerChars : key[i] = LowerChars[n]

\* C23: for every string s of uppercase letters, digits and '_',
\* to_rpc_format(to_http_format(s)) = s; for every string s of lowercase letters,
\* digits and '-', to_http_format(to_rpc_format(s)) = s.
C23_CanonicalRoundTrip ==
    /\ (codec.pc = "http_rpc" /\ IsCanonicalSnake(codec.key)) => codec.back = codec.key
    /\ (codec.pc = "rpc_http" /\ IsCanonicalKebab(codec.key)) => codec.back = codec.key

\* A snake key with letters, separators and a digit, changed by the translation
\* to kebab and restored by the translation back.
C23_Witness ==
    /\ codec.pc = "http_rpc"
    /\ IsCanonicalSnake(codec.key)
    /\ {"R", "_", "1"} \subseteq {codec.key[i] : i \in DOMAIN codec.key}
    /\ codec.out # codec.key
    /\ codec.back = codec.key

\* C24: a typed store holds at most one value per type: insert::<T>(v) replaces any
\* earlier value of T and leaves the values of the context's other types as they
\* were, get::<T>() then returns v; a remove::<T>() that follows returns v, leaves
\* no value of T in the store and the other types as they were, and in a context
\* with no parent get::<T>() then returns None.
C24_OneValuePerType ==
    [][\A c \in Owned, T \in Types :
        /\ (last'.op = "insert" /\ last'.c = c /\ last'.k = T)
            => /\ LocalValue(tmap, c, T)' = Some(last'.v)
               /\ get(c, T)' = Some(last'.v)
               /\ \A U \in Types \ {T} : LocalValue(tmap, c, U)' = LocalValue(tmap, c, U)
        /\ (/\ last.op = "insert" /\ last.c = c /\ last.k = T
            /\ last'.op = "remove" /\ last'.c = c /\ last'.k = T)
            => /\ last'.ret = Some(last.v)
               /\ ~HoldsLocally(tmap, c, T)'
               /\ is_none(parent[c]) => is_none(get(c, T)')
               /\ \A U \in Types \ {T} : LocalValue(tmap, c, U)' = LocalValue(tmap, c, U)]_vars

\* A remove on a root that returned the value of the second insert of the type,
\* after which the type is absent and the other type is still held.
C24_Witness ==
    /\ last.op = "remove"
    /\ last.k = "i8"
    /\ last.ret = Some(2)
    /\ is_none(parent[last.c])
    /\ is_none(get(last.c, "i8"))
    /\ HoldsLocally(tmap, last.c, "i16")

\* C25: in every reachable state and for every context, contains::<T>() is true
\* exactly when get::<T>() returns Some, contains_string(k) exactly when
\* get_string(k) returns Some, and contains_faststr::<T>() exactly when
\* get_faststr::<T>() returns Some, ancestors included.
C25_ContainsIffGet ==
    \A c \in Alive :
        /\ \A T \in Types : contains(c, T) <=> is_some(get(c, T))
        /\ \A k \in StrKeys : contains_string(c, k) <=> is_some(get_string(c, k))
        /\ \A T \in FastTypes : contains_faststr(c, T) <=> is_some(get_faststr(c, T))

\* A context that contains a faststr newtype and a string key through its
\* ancestors only, and does not contain a type that no scope holds.
C25_Witness ==
    \E c \in Owned :
        /\ contains_faststr(c, "F") /\ ~HoldsLocally(faststr_tmap, c, "F")
        /\ contains_string(c, "sk") /\ ~HoldsLocally(smap, c, "sk")
        /\ ~contains(c, "i16")

\* Context c is the parent of a context that exists.
IsParent(c) == \E x \in Alive : parent[x] = Some(c)

\* C26: once a context is shared as a parent (through from(parent) or through
\* promotion in derive()), its local typed, string and faststr stores, its forward
\* and backward nodes and its own parent link never change, whatever its
\* descendants and the other contexts do in whatever order; and what a descendant
\* reads changes only through calls made on that descendant.
C26_SharedParentIsFixed ==
    [][/\ \A c \in Ctx : (c \in Shared \/ IsParent(c)) => Local(c)' = Local(c)
       /\ \A x \in Owned :
            (is_some(parent[x]) /\ last'.c # x /\ status'[x] = "owned")
                => Observe(x)' = Observe(x)]_vars

\* Two descendants of one promoted context, one of which has just shadowed the
\* typed value the other still reads from the parent both share.
C26_Witness ==
    /\ last.op = "insert"
    /\ \E x \in Owned \ {last.c} :
        /\ is_some(parent[x])
        /\ parent[x] = parent[last.c]
        /\ status[unwrap(parent[x])] = "promoted"
        /\ get(x, last.k) = LocalValue(tmap, unwrap(parent[x]), last.k)
        /\ get(x, last.k) # get(last.c, last.k)

\* C27: forward and backward reads never fall back to an ancestor.  After a del_*
\* of key k on a context, a child built by from(parent) or derive() included,
\* the context's get for k on that segment returns None, while every other
\* context, the parent whose snapshot k came from included, keeps its nodes; and a
\* read that returns None goes on returning None until the context itself sets k
\* on that segment or extends.  (Every call increments ops.)
C27_SegmentsDoNotFallBack ==
    [][\A c \in Owned :
        /\ (last'.op \in DelOps /\ last'.c = c)
            => /\ \A name \in SegmentNames, key \in KvKeys :
                    (SegmentOf[last'.op] = name /\ last'.k = key)
                        => is_none(SegmentRead(c, name, key)')
               /\ \A x \in Alive \ {c} :
                    /\ forward_node'[x] = forward_node[x]
                    /\ backward_node'[x] = backward_node[x]
        /\ \/ /\ forward_node'[c] = forward_node[c]
              /\ backward_node'[c] = backward_node[c]
           \/ \A name \in SegmentNames, key \in KvKeys :
                (is_none(SegmentRead(c, name, key)) /\ is_some(SegmentRead(c, name, key)'))
                    => /\ last'.c = c
                       /\ \/ last'.op = "extend"
                          \/ /\ last'.op \in SetOps
                             /\ SegmentOf[last'.op] = name
                             /\ last'.k = key]_ops

\* A child built by from(parent) has deleted a key of the snapshot: it reads None
\* and its parent still reads the value.
C27_Witness ==
    /\ last.op = "del_persistent"
    /\ is_some(parent[last.c])
    /\ status[unwrap(parent[last.c])] = "arc"
    /\ is_some(get_persistent(unwrap(parent[last.c]), last.k))
    /\ is_none(get_persistent(last.c, last.k))

\* C28: MetaInfo::from(parent) returns a context whose forward and backward reads
\* (every segment, every key) equal the parent's at the moment of the call, whose
\* typed, string and faststr lookups return the parent's values while it holds
\* nothing locally (a remove made on it next returns None), and whose parent link
\* is the given parent.  (Every call increments ops.)
C28_FromSnapshotsParent ==
    [][\A p \in Ctx, n \in Ctx :
        /\ (last'.op = "from" /\ last'.c = p /\ last'.a = n)
            => /\ parent'[n] = Some(p)
               /\ \A name \in SegmentNames, key \in KvKeys :
                    SegmentRead(n, name, key)' = SegmentRead(p, name, key)
               /\ \A T \in Types :
                    ~HoldsLocally(tmap, n, T)' /\ get(n, T)' = get(p, T)
               /\ \A k \in StrKeys :
                    ~HoldsLocally(smap, n, k)' /\ get_string(n, k)' = get_string(p, k)
               /\ \A T \in FastTypes :
                    ~HoldsLocally(faststr_tmap, n, T)' /\ get_faststr(n, T)' = get_faststr(p, T)
        /\ (/\ last.op = "from" /\ last.a = n /\ last'.c = n
            /\ last'.op \in {"remove", "remove_string", "remove_faststr"})
            => last'.ret = None]_ops

\* A remove on a context just built by from(parent) returned None, and the context
\* still reads the parent's typed value and the parent's persistent entry.
C28_Witness ==
    /\ last.op = "remove"
    /\ last.ret = None
    /\ is_some(parent[last.c])
    /\ status[unwrap(parent[last.c])] = "arc"
    /\ is_some(get(last.c, last.k))
    /\ is_some(get_persistent(last.c, <<"K">>))
    /\ get_persistent(last.c, <<"K">>) = get_persistent(unwrap(parent[last.c]), <<"K">>)

SegmentReadAll(c, name) ==
    CASE name = "persistent" -> get_all_persistents(c)
      [] name = "transient" -> get_all_transients(c)
      [] name = "upstream" -> get_all_upstreams(c)
      [] name = "backward_transient" -> get_all_backward_transients(c)
      [] name = "backward_downstream" -> get_all_backward_downstreams(c)
ExportsOver(c, name) ==
    IF name \in {"persistent", "transient"}
    THEN {get_all_persistents_and_transients_with_rpc_prefix(c),
          get_all_persistents_and_transients_with_http_prefix(c)}
    ELSE IF name = "backward_transient"
    THEN {get_all_backward_transients_with_rpc_prefix(c),
          get_all_backward_transients_with_http_prefix(c)}
    ELSE {}

\* C30: a segment's get_all returns None as long as the segment was not allocated
\* in the context: a context made by new() has none, one made by from or derive
\* has those of the context it was made from, get_all turns from None to Some only
\* through a set on that segment of that context or through an extend that adopts
\* one, a set makes it Some, and
\* once Some it stays Some under every call but clear, which is not looked at
\* here; a del that removes the last entry leaves get_all at Some of an empty
\* mapping, while the prefixed bulk exports over the segment return None when the
\* forward persistent and transient segments (the backward transient segment)
\* hold no entry.  (Every call increments ops; a context on which the call was not
\* made and whose two nodes are unchanged reads the same.)
C30_AllocatedSegmentStaysSome ==
    [][last'.op # "clear" =>
        /\ last'.op \in {"new", "from", "derive"}
            => \A x \in {last'.c} \cap Ctx, n \in {last'.a, last'.b} \cap Ctx :
                \A name \in SegmentNames :
                    IF last'.op = "new" THEN is_none(SegmentReadAll(n, name)')
                    ELSE SegmentReadAll(n, name)' = SegmentReadAll(x, name)
        /\ \A c \in Owned, name \in SegmentNames :
            LET before == SegmentReadAll(c, name)
                after == SegmentReadAll(c, name)'
                mine == /\ last'.c = c
                        /\ last'.op \in SetOps \/ last'.op \in DelOps
                        /\ SegmentOf[last'.op] = name
            IN  \/ status'[c] # "owned"
                \/ /\ last'.c # c
                   /\ forward_node'[c] = forward_node[c]
                   /\ backward_node'[c] = backward_node[c]
                \/ /\ is_some(before) => is_some(after)
                   /\ (is_none(before) /\ is_some(after))
                       => \/ mine /\ last'.op \in SetOps
                          \/ /\ last'.op = "extend" /\ last'.c = c
                             /\ is_some(SegmentReadAll(last'.a, name))
                   /\ (mine /\ last'.op \in SetOps) => is_some(after)
                   /\ (mine /\ last'.op \in DelOps /\ is_some(before)
                           /\ DOMAIN unwrap(before) \subseteq {last'.k})
                       => /\ is_some(after) /\ DOMAIN unwrap(after) = {}
                          /\ \A out \in ExportsOver(c, name)' :
                               (IF name = "backward_transient" THEN TRUE
                                ELSE opt_len(get_all_persistents(c)')
                                       + opt_len(get_all_transients(c)') = 0)
                                   => is_none(out)]_ops

\* A del has removed the only entry of the transient segment: get_all_transients
\* returns Some of an empty mapping, the never allocated upstream segment None,
\* and both forward exports None.
C30_Witness ==
    /\ last.op = "del_transient"
    /\ is_some(get_all_transients(last.c))
    /\ DOMAIN unwrap(get_all_transients(last.c)) = {}
    /\ is_none(get_all_upstreams(last.c))
    /\ is_none(get_all_persistents_and_transients_with_rpc_prefix(last.c))
    /\ is_none(get_all_persistents_and_transients_with_http_prefix(last.c))

\* C31 as stated: for every upper-snake key k, after
\* strip_http_prefix_and_set_persistent(rpc-persist- + kebab(k), v) or
\* strip_rpc_prefix_and_set_persistent(RPC_PERSIST_ + k, v), get_persistent(k)
\* returns v, the RPC-style export maps RPC_PERSIST_ + k to v and the HTTP-style
\* export maps rpc-persist- + kebab(k) to v.  (Every call increments ops.)
C31_Original ==
    [][\A c \in Ctx, k \in WireKvKeys :
        (/\ last'.c = c
         /\ \/ /\ last'.op = "strip_http_prefix_and_set_persistent"
               /\ last'.k = HTTP_PREFIX_PERSISTENT \o Kebab(k)
            \/ /\ last'.op = "strip_rpc_prefix_and_set_persistent"
               /\ last'.k = RPC_PREFIX_PERSISTENT \o k)
            => /\ get_persistent(c, k)' = Some(last'.v)
               /\ <<RPC_PREFIX_PERSISTENT \o k, last'.v>>
                    \in Pairs(get_all_persistents_and_transients_with_rpc_prefix(c))'
               /\ <<HTTP_PREFIX_PERSISTENT \o Kebab(k), last'.v>>
                    \in Pairs(get_all_persistents_and_transients_with_http_prefix(c))']_ops

\* C32: a call on the entry slot of T never replaces a present value: or_insert,
\* or_insert_with, or_insert_with_key and or_default return the value of T that
\* was there and leave it stored, and store and return the default only when T
\* was absent; and_modify leaves f of the value when T was present and leaves T
\* absent when it was absent. (Every call increments codec.n.)
OrInsertOps == {"or_insert", "or_insert_with", "or_insert_with_key", "or_default"}
C32_EntryNeverReplaces ==
    [][LET before == TypeMap_get(codec.inner, codec'.T)
           after == TypeMap_get(codec'.inner, codec'.T)
       IN /\ codec'.op \in OrInsertOps =>
                IF is_some(before)
                THEN after = before /\ codec'.ret = unwrap(before)
                ELSE after = Some(codec'.d) /\ codec'.ret = codec'.d
          /\ codec'.op = "and_modify" =>
                IF is_some(before)
                THEN after = Some(codec'.f[unwrap(before)])
                ELSE is_none(after)]_(codec.n)
\* A value of T was present, a different default was offered, and the value is kept.
C32_Witness ==
    /\ codec.pc = "called"
    /\ codec.op \in OrInsertOps
    /\ codec.ret # codec.d
    /\ TypeMap_get(codec.inner, codec.T) = Some(codec.ret)

\* C33 as stated: the forward bulk export of either style holds as many entries as
\* the persistent segment and the transient segment hold together, so that no two
\* stored keys share an exported key.
C33_Original ==
    \A c \in Owned, converter \in Converters :
        opt_len(get_all_persistents_and_transients(c, converter))
            = opt_len(get_all_persistents(c)) + opt_len(get_all_transients(c))

\* C34: a wire header lands in at most one segment: for every key at most one of
\* remove_persistent_prefix, remove_transient_prefix and remove_backward_prefix of
\* RpcConverter and of HttpConverter returns Some, so of the six strip-and-set
\* operations handed the key and a value at most one writes.
StripFunctions ==
    {<<"RpcConverter", "persistent", "persistent">>, <<"RpcConverter", "transient", "stale">>,
     <<"HttpConverter", "persistent", "persistent">>, <<"HttpConverter", "transient", "stale">>,
     <<"RpcConverter", "backward", "stale">>, <<"HttpConverter", "backward", "stale">>}
Returning(key) == {op \in StripFunctions : is_some(Converter_remove(op[1], op[2], key))}
Writing(key) ==
    {op \in StripFunctions :
        strip_and_set(None, Converter_remove(op[1], op[2], key), op[3], "x") # None}
C34_AtMostOnePrefixMatches ==
    /\ Cardinality(Returning(codec.key)) <= 1
    /\ Cardinality(Writing(codec.key)) <= 1
\* A key under one of the prefixes has been stripped by the one function that takes
\* it, and no other function takes it.
C34_Witness ==
    /\ codec.pc = "stripped"
    /\ is_some(codec.back)
    /\ Returning(codec.key) = {op \in StripFunctions : op[1] = codec.converter /\ op[2] = codec.kind}
    /\ Cardinality(Writing(codec.key)) = 1

\* C35: no codec write goes past its buffer: to_http_format and to_rpc_format write
\* the key.len() bytes at offsets 0..key.len() of their slice; add takes the inline
\* buffer of 24 bytes exactly when prefix.len() + key.len() <= 24 and remove exactly
\* when the stripped key has key.len() <= 24; the heap buffer is prefix.len() +
\* key.len() bytes long in add and key.len() bytes long in remove; and every offset
\* written is below the length of the buffer.
PrefixOf(converter, kind) ==
    CASE kind = "persistent" ->
            IF converter = "RpcConverter" THEN RPC_PREFIX_PERSISTENT ELSE HTTP_PREFIX_PERSISTENT
      [] kind = "transient" ->
            IF converter = "RpcConverter" THEN RPC_PREFIX_TRANSIENT ELSE HTTP_PREFIX_TRANSIENT
      [] kind = "backward" ->
            IF converter = "RpcConverter" THEN RPC_PREFIX_BACKWARD ELSE HTTP_PREFIX_BACKWARD
AddBuf(converter, kind, key) ==
    IF converter = "RpcConverter" THEN RpcConverter_add_prefix_buf(PrefixOf(converter, kind), key)
    ELSE HttpConverter_add_prefix_and_to_http_format_buf(PrefixOf(converter, kind), key)
InBounds(buf) == \A o \in buf.writes : 0 <= o /\ o < buf.len
C35_WritesStayInBuffer ==
    /\ to_http_format_writes(codec.key, 0) = 0..(str_len(codec.key) - 1)
    /\ to_rpc_format_writes(codec.key, 0) = 0..(str_len(codec.key) - 1)
    /\ \A converter \in Converters, kind \in Kinds :
        LET total == str_len(PrefixOf(converter, kind)) + str_len(codec.key)
            buf == AddBuf(converter, kind, codec.key)
        IN  /\ buf.inline <=> total <= 24
            /\ buf.len = IF buf.inline THEN 24 ELSE total
            /\ InBounds(buf)
    /\ \A kind \in Kinds :
        LET stripped == strip_prefix(codec.key, PrefixOf("HttpConverter", kind))
            buf == HttpConverter_remove_prefix_and_to_rpc_format_buf(
                        PrefixOf("HttpConverter", kind), codec.key)
        IN  is_some(stripped) =>
                /\ is_some(buf)
                /\ unwrap(buf).inline <=> str_len(unwrap(stripped)) <= 24
                /\ unwrap(buf).len = IF unwrap(buf).inline THEN 24
                                     ELSE str_len(unwrap(stripped))
                /\ InBounds(unwrap(buf))
\* A key with a char of more than one byte that fills the inline buffer to its last
\* byte with its prefix has been given the prefix by HttpConverter, in place.
C35_Witness ==
    /\ codec.pc = "added"
    /\ codec.converter = "HttpConverter"
    /\ str_len(PrefixOf(codec.converter, codec.kind)) + str_len(codec.key) = 24
    /\ Len(codec.key) < str_len(codec.key)
    /\ AddBuf(codec.converter, codec.kind, codec.key).writes = 0..23
    /\ codec.wire = PrefixOf(codec.converter, codec.kind) \o to_http_format(codec.key)

====
